---------------------------- MODULE Spec2Model ----------------------------
(***************************************************************************)
(* A model of the ENDF-6 reader of endf-python: the material/section       *)
(* splitter and section dispatch (src/src/endf/material.py), the record     *)
(* readers and primitive decoders (src/src/endf/records.py), the tabulated  *)
(* functions (function.py), the section parsers (mf1.py, mf2.py, mf5.py,    *)
(* mf6.py, mf12.py, mf26.py, mf33.py), the sum rules of the reactions       *)
(* (incident_neutron.py) and the fission products (reaction.py).            *)
(*                                                                         *)
(* A stream is a sequence of lines.  A line keeps its three control fields  *)
(* as the characters of columns [66,70), [70,72) and [72,75) and a token    *)
(* for the 66 data columns.  Positions are line offsets: tell() = 0 is the  *)
(* start of the stream, readline() at the end returns the empty string and  *)
(* leaves the position where it is.                                         *)
(***************************************************************************)
EXTENDS Integers, Sequences, FiniteSets, TLC

VARIABLES
    tape,       \* the lines of the stream handed to Material / get_materials
    pos,        \* fh.tell(): offset of the next line readline() returns
    phase,      \* where the caller is: "new", "built", "raised", "diverged", "scan", "done"
    mat,        \* the Material object (its _MAT, _section_text, _section_data)
    materials,  \* get_materials: the list built so far
    ret,        \* what the last call on the Material returned or raised
    nset,       \* number of index assignments made so far
    arg,        \* the argument of a function called on its own
    out         \* what that call returned

vars == <<tape, pos, phase, mat, materials, ret, nset, arg, out>>

---------------------------------------------------------------------------
(* Bounds of the model *)

MaxSections == 2    \* sections written in one material
MaxMaterials == 2   \* materials written on one tape
MaxSets == 1        \* index assignments made on one Material

---------------------------------------------------------------------------
(* Python's str and int() on the control fields *)

Digits == <<"0", "1", "2", "3", "4", "5", "6", "7", "8", "9">>

IsDigit(c) == \E i \in 1..10 : Digits[i] = c

DigitVal(c) == (CHOOSE i \in 1..10 : Digits[i] = c) - 1

\* the element of a set of one element: The({ e(x) : x \in {v} }) is e(v), with
\* v evaluated once however often e uses it
The(S) == CHOOSE x \in S : TRUE

RECURSIVE LStrip(_)
LStrip(s0) ==
    The({ IF s # <<>> /\ Head(s) = " " THEN LStrip(Tail(s)) ELSE s : s \in {s0} })

RECURSIVE RStrip(_)
RStrip(s0) ==
    The({ IF s # <<>> /\ s[Len(s)] = " " THEN RStrip(SubSeq(s, 1, Len(s) - 1)) ELSE s
          : s \in {s0} })

RECURSIVE DigitsValue(_, _)
DigitsValue(s0, acc) ==
    The({ IF s = <<>> THEN acc ELSE DigitsValue(Tail(s), 10 * acc + DigitVal(Head(s)))
          : s \in {s0} })

\* int(s): blanks around the literal are dropped, one sign is allowed, the rest
\* must be one or more digits; anything else (the empty string too) is ValueError.
PyInt(s) ==
    The({ LET signed == t # <<>> /\ Head(t) \in {"+", "-"}
              d == IF signed THEN Tail(t) ELSE t
              good == d # <<>> /\ SelectSeq(d, IsDigit) = d
          IN  IF ~good THEN [ok |-> FALSE, val |-> 0]
              ELSE [ok |-> TRUE,
                    val |-> IF signed /\ Head(t) = "-" THEN 0 - DigitsValue(d, 0)
                            ELSE DigitsValue(d, 0)]
          : t \in { RStrip(LStrip(s)) } })

---------------------------------------------------------------------------
(* Lines and streams *)

\* a line of the file: columns [66,70), [70,72), [72,75) and the data columns
Line(matf, mff, mtf, txt) == [mat |-> matf, mf |-> mff, mt |-> mtf, txt |-> txt]

\* what readline() returns at the end of the stream: '' (every slice of it is '')
EOFLine == Line(<<>>, <<>>, <<>>, "")

\* fh.readline(): the line at offset p and the offset after it
ReadLine(t, p) ==
    IF p < Len(t) THEN [line |-> t[p + 1], pos |-> p + 1]
    ELSE [line |-> EOFLine, pos |-> p]

\* s += line on a text kept as its lines ('' adds nothing)
AddLine(text, line) == IF line = EOFLine THEN text ELSE Append(text, line)

---------------------------------------------------------------------------
(* The lines written on the modelled tapes.  Control fields are written the *)
(* way the format writes them (I4, I2, I3: right-justified, blank-padded).  *)

MAT_125 == <<" ", "1", "2", "5">>
MAT_126 == <<" ", "1", "2", "6">>
MAT_TAPE == <<" ", " ", " ", "1">>      \* the tape number of a TPID record
MAT_ZERO == <<" ", " ", " ", "0">>      \* line[66:70] of a MEND record
MAT_TEND == <<" ", " ", "-", "1">>      \* line[66:70] == '  -1'
MF_ZERO == <<" ", "0">>
MF_1 == <<" ", "1">>
MF_3 == <<" ", "3">>
MT_ZERO == <<" ", " ", "0">>            \* line[72:75] == '  0'
MT_000 == <<"0", "0", "0">>             \* zero written with leading zeros
MT_1 == <<" ", " ", "1">>
MT_2 == <<" ", " ", "2">>
MT_3 == <<" ", " ", "3">>

\* the material number written on the i-th material of a tape
MatField(i) == IF i % 2 = 1 THEN MAT_125 ELSE MAT_126

TPID == Line(MAT_TAPE, MF_ZERO, MT_ZERO, "tpid")
FEND(m) == Line(m, MF_ZERO, MT_ZERO, "")
MEND == Line(MAT_ZERO, MF_ZERO, MT_ZERO, "")
TEND == Line(MAT_TEND, MF_ZERO, MT_ZERO, "")

\* The sections a material may hold: the first (HEAD) line of each; "head" is a
\* HEAD record whose six fields decode, "junk" one whose fields do not.
\* (3,1) and (3,2) have a parser, (1,3) has none.
HeadLines(m, sound) ==
    { Line(m, MF_3, MT_1, "head"), Line(m, MF_3, MT_2, "head"),
      Line(m, MF_1, MT_3, "head") }
    \cup (IF sound THEN {} ELSE { Line(m, MF_3, MT_2, "junk") })

\* a further line of the section that starts with h
DataLine(h) == [h EXCEPT !.txt = "data"]

\* the SEND record of the section that starts with h
SEND(h) == [h EXCEPT !.mt = MT_ZERO, !.txt = ""]

\* a SEND record whose section number is written 000
SEND000(h) == [h EXCEPT !.mt = MT_000, !.txt = ""]

\* one section as written: HEAD, maybe a data line, and its SEND; unless
\* `sound`, the HEAD may be junk and the SEND may be missing or written 000
SectionBlocks(m, sound) ==
    UNION { { <<h>> \o d \o e :
                d \in {<<>>, <<DataLine(h)>>},
                e \in IF sound THEN {<<SEND(h)>>}
                      ELSE {<<SEND(h)>>, <<>>, <<SEND000(h)>>} } :
            h \in HeadLines(m, sound) }

RECURSIVE Concats(_, _)
\* the concatenations of 1..n members of S
Concats(S, n) ==
    IF n <= 1 THEN S
    ELSE S \cup { a \o b : a \in S, b \in Concats(S, n - 1) }

\* Streams for one Material: with or without TPID, 1..MaxSections sections,
\* the end records present or cut off.
MaterialTapes ==
    { lead \o body \o fin \o rest :
        lead \in {<<>>, <<TPID>>},
        body \in Concats(SectionBlocks(MAT_125, FALSE), MaxSections),
        fin \in {<<FEND(MAT_125), MEND>>, <<MEND>>, <<>>},
        rest \in {<<>>, <<TEND>>} }

\* One well-formed material: sections of decodable records each closed by SEND,
\* then FEND (or not) and MEND.
WellFormedMaterials(m) ==
    { body \o fin :
        body \in Concats(SectionBlocks(m, TRUE), MaxSections),
        fin \in {<<FEND(m), MEND>>, <<MEND>>} }

RECURSIVE MaterialRuns(_)
\* k well-formed materials one after the other, the i-th numbered MatField(i)
MaterialRuns(k) ==
    IF k = 0 THEN {<<>>}
    ELSE { a \o b : a \in MaterialRuns(k - 1), b \in WellFormedMaterials(MatField(k)) }

\* Tapes for get_materials: TPID, k materials, TEND.
WellFormedTapes ==
    UNION { { <<TPID>> \o run \o <<TEND>> : run \in MaterialRuns(k) } : k \in 0..MaxMaterials }

---------------------------------------------------------------------------
(* Python objects held in the mappings *)

PyNone == [kind |-> "None"]
PyText(lines) == [kind |-> "str", lines |-> lines]
PyData(parser, lines) == [kind |-> "dict", parser |-> parser, src |-> lines]
PyUser(n) == [kind |-> "user", tag |-> n]

\* A dict (insertion-ordered): the sequence of its items.
DictHas(d, k) == \E i \in 1..Len(d) : d[i].k = k

DictGet(d, k) == d[CHOOSE i \in 1..Len(d) : d[i].k = k].v

DictKeys(d) == [i \in 1..Len(d) |-> d[i].k]

\* d[k] = v: a key already there keeps its place
DictSet(d, k, v) ==
    IF DictHas(d, k)
    THEN [i \in 1..Len(d) |-> IF d[i].k = k THEN [k |-> k, v |-> v] ELSE d[i]]
    ELSE Append(d, [k |-> k, v |-> v])

---------------------------------------------------------------------------
(* Material.__init__: the splitter *)

\* a variant that skips a line wherever the stream is
SkipTPID_Always(t, p) == ReadLine(t, p).pos

\* "Skip TPID record": one readline() when the stream is at offset 0
SkipTPID(t, p) == IF p = 0 THEN ReadLine(t, p).pos ELSE p

RECURSIVE FindMAT(_, _)
\* "Determine MAT number for this material": read while MF == 0, then seek back
\* to the line that ended the loop.
FindMAT(t, p) ==
    LET r == ReadLine(t, p)
        MF == PyInt(r.line.mf)
        MAT == PyInt(r.line.mat)
    IN  IF ~MF.ok THEN [exc |-> "ValueError", MAT |-> 0, pos |-> r.pos]
        ELSE IF MF.val = 0 THEN FindMAT(t, r.pos)
        ELSE IF ~MAT.ok THEN [exc |-> "ValueError", MAT |-> 0, pos |-> r.pos]
        ELSE [exc |-> "none", MAT |-> MAT.val, pos |-> p]

RECURSIVE FindSection(_, _)
\* "Find next section": read until MT > 0 or MAT == 0, then seek back to that line
FindSection(t, p) ==
    LET r == ReadLine(t, p)
        MAT == PyInt(r.line.mat)
        MF == PyInt(r.line.mf)
        MT == PyInt(r.line.mt)
    IN  IF ~MAT.ok \/ ~MF.ok \/ ~MT.ok
        THEN [exc |-> "ValueError", MAT |-> 0, MF |-> 0, MT |-> 0, pos |-> r.pos]
        ELSE IF MT.val > 0 \/ MAT.val = 0
        THEN [exc |-> "none", MAT |-> MAT.val, MF |-> MF.val, MT |-> MT.val, pos |-> p]
        ELSE FindSection(t, r.pos)

RECURSIVE ReadSectionText_KeepsEnd(_, _, _)
\* a variant of the loop that adds the line before it tests it: the line with
\* line[72:75] == '  0' ends up in the text
ReadSectionText_KeepsEnd(t, p, text) ==
    LET r == ReadLine(t, p)
    IN  IF r.line.mt = MT_ZERO
        THEN [end |-> "break", text |-> AddLine(text, r.line), pos |-> r.pos]
        ELSE IF r.pos = p /\ AddLine(text, r.line) = text
        THEN [end |-> "never", text |-> text, pos |-> p]
        ELSE ReadSectionText_KeepsEnd(t, r.pos, AddLine(text, r.line))

RECURSIVE ReadSectionText(_, _, _)
\* the loop that fills section_text: lines are added until line[72:75] == '  0',
\* and that line is consumed.  At the end of the stream readline() returns ''
\* for ever: nothing changes and the loop has no other exit ("never").
ReadSectionText(t, p, text) ==
    LET r == ReadLine(t, p)
    IN  IF r.line.mt = MT_ZERO THEN [end |-> "break", text |-> text, pos |-> r.pos]
        ELSE IF r.pos = p /\ AddLine(text, r.line) = text
        THEN [end |-> "never", text |-> text, pos |-> p]
        ELSE ReadSectionText(t, r.pos, AddLine(text, r.line))

RECURSIVE SplitSections(_, _, _)
\* the outer loop: section after section into _section_text, until MAT == 0,
\* whose line is consumed
SplitSections(t, p, d) ==
    LET f == FindSection(t, p)
    IN  IF f.exc # "none" THEN [end |-> f.exc, text |-> d, pos |-> f.pos]
        ELSE IF f.MAT = 0 THEN [end |-> "done", text |-> d, pos |-> ReadLine(t, f.pos).pos]
        ELSE LET s == ReadSectionText(t, f.pos, <<>>)
             IN  IF s.end = "never" THEN [end |-> "never", text |-> d, pos |-> s.pos]
                 ELSE SplitSections(t, s.pos, DictSet(d, <<f.MF, f.MT>>, PyText(s.text)))

---------------------------------------------------------------------------
(* Material.__init__: section dispatch *)

\* a variant of the chain in which the test MF == 8 comes before the tests of
\* the pairs of file 8
Dispatch_FileFirst(MF, MT) ==
    IF MF = 1 /\ MT = 451 THEN "parse_mf1_mt451"
    ELSE IF MF = 1 /\ MT \in {452, 456} THEN "parse_mf1_mt452"
    ELSE IF MF = 1 /\ MT = 455 THEN "parse_mf1_mt455"
    ELSE IF MF = 1 /\ MT = 458 THEN "parse_mf1_mt458"
    ELSE IF MF = 1 /\ MT = 460 THEN "parse_mf1_mt460"
    ELSE IF MF = 2 /\ MT = 151 THEN "parse_mf2"
    ELSE IF MF = 3 THEN "parse_mf3"
    ELSE IF MF = 4 THEN "parse_mf4"
    ELSE IF MF = 5 THEN "parse_mf5"
    ELSE IF MF = 6 THEN "parse_mf6"
    ELSE IF MF = 7 /\ MT = 2 THEN "parse_mf7_mt2"
    ELSE IF MF = 7 /\ MT = 4 THEN "parse_mf7_mt4"
    ELSE IF MF = 7 /\ MT = 451 THEN "parse_mf7_mt451"
    ELSE IF MF = 8 THEN "parse_mf8"
    ELSE IF MF = 8 /\ MT \in {454, 459} THEN "parse_mf8_mt454"
    ELSE IF MF = 8 /\ MT = 457 THEN "parse_mf8_mt457"
    ELSE IF MF \in {9, 10} THEN "parse_mf9_mf10"
    ELSE IF MF = 12 THEN "parse_mf12"
    ELSE IF MF = 13 THEN "parse_mf13"
    ELSE IF MF = 14 THEN "parse_mf14"
    ELSE IF MF = 15 THEN "parse_mf15"
    ELSE IF MF = 23 THEN "parse_mf23"
    ELSE IF MF = 26 THEN "parse_mf26"
    ELSE IF MF = 27 THEN "parse_mf27"
    ELSE IF MF = 28 THEN "parse_mf28"
    ELSE IF MF = 33 THEN "parse_mf33"
    ELSE IF MF = 34 THEN "parse_mf34"
    ELSE IF MF = 40 THEN "parse_mf40"
    ELSE "ignored"

\* the if/elif chain over (MF, MT): the parser called, or "ignored" (warn)
Dispatch(MF, MT) ==
    IF MF = 1 /\ MT = 451 THEN "parse_mf1_mt451"
    ELSE IF MF = 1 /\ MT \in {452, 456} THEN "parse_mf1_mt452"
    ELSE IF MF = 1 /\ MT = 455 THEN "parse_mf1_mt455"
    ELSE IF MF = 1 /\ MT = 458 THEN "parse_mf1_mt458"
    ELSE IF MF = 1 /\ MT = 460 THEN "parse_mf1_mt460"
    ELSE IF MF = 2 /\ MT = 151 THEN "parse_mf2"
    ELSE IF MF = 3 THEN "parse_mf3"
    ELSE IF MF = 4 THEN "parse_mf4"
    ELSE IF MF = 5 THEN "parse_mf5"
    ELSE IF MF = 6 THEN "parse_mf6"
    ELSE IF MF = 7 /\ MT = 2 THEN "parse_mf7_mt2"
    ELSE IF MF = 7 /\ MT = 4 THEN "parse_mf7_mt4"
    ELSE IF MF = 7 /\ MT = 451 THEN "parse_mf7_mt451"
    ELSE IF MF = 8 /\ MT \in {454, 459} THEN "parse_mf8_mt454"
    ELSE IF MF = 8 /\ MT = 457 THEN "parse_mf8_mt457"
    ELSE IF MF = 8 THEN "parse_mf8"
    ELSE IF MF \in {9, 10} THEN "parse_mf9_mf10"
    ELSE IF MF = 12 THEN "parse_mf12"
    ELSE IF MF = 13 THEN "parse_mf13"
    ELSE IF MF = 14 THEN "parse_mf14"
    ELSE IF MF = 15 THEN "parse_mf15"
    ELSE IF MF = 23 THEN "parse_mf23"
    ELSE IF MF = 26 THEN "parse_mf26"
    ELSE IF MF = 27 THEN "parse_mf27"
    ELSE IF MF = 28 THEN "parse_mf28"
    ELSE IF MF = 33 THEN "parse_mf33"
    ELSE IF MF = 34 THEN "parse_mf34"
    ELSE IF MF = 40 THEN "parse_mf40"
    ELSE "ignored"

\* A section parser on io.StringIO(text).  Every parser starts with
\* get_head_record on the first line, which raises ValueError when a field does
\* not decode (or no line is there); what it returns is determined by the parser
\* and the text it is given.
RunParser(parser, text) ==
    IF text.lines # <<>> /\ text.lines[1].txt # "junk"
    THEN [exc |-> "none", val |-> PyData(parser, text.lines)]
    ELSE [exc |-> "ValueError", val |-> PyNone]

RECURSIVE ParseSections_StopAtUnknown(_, _, _, _)
\* a variant of the loop that leaves at the first section without a parser
ParseSections_StopAtUnknown(items, i, data, warned) ==
    IF i > Len(items) THEN [exc |-> "none", data |-> data, warnings |-> warned]
    ELSE LET key == items[i].k
             parser == Dispatch(key[1], key[2])
             r == RunParser(parser, items[i].v)
         IN  IF parser = "ignored"
             THEN [exc |-> "none", data |-> data, warnings |-> Append(warned, key)]
             ELSE IF r.exc # "none"
             THEN [exc |-> r.exc, data |-> data, warnings |-> warned]
             ELSE ParseSections_StopAtUnknown(items, i + 1, DictSet(data, key, r.val), warned)

RECURSIVE ParseSections(_, _, _, _)
\* for (MF, MT), text in self._section_text.items(): parse or warn
ParseSections(items, i, data, warned) ==
    IF i > Len(items) THEN [exc |-> "none", data |-> data, warnings |-> warned]
    ELSE LET key == items[i].k
             parser == Dispatch(key[1], key[2])
             r == RunParser(parser, items[i].v)
         IN  IF parser = "ignored"
             THEN ParseSections(items, i + 1, data, Append(warned, key))
             ELSE IF r.exc # "none"
             THEN [exc |-> r.exc, data |-> data, warnings |-> warned]
             ELSE ParseSections(items, i + 1, DictSet(data, key, r.val), warned)

\* No Material: the constructor has not returned one.
NoMaterial(status, p) ==
    [status |-> status, MAT |-> 0, section_text |-> <<>>, section_data |-> <<>>,
     warnings |-> <<>>, pos |-> p]

\* Material(fh) with fh at offset p of stream t: the object built and the offset
\* the stream is left at; or the exception raised; or "never" when a loop of the
\* constructor cannot end.
MaterialInit(t, p) ==
    LET m == FindMAT(t, SkipTPID(t, p))
        s == SplitSections(t, m.pos, <<>>)
        d == ParseSections(s.text, 1, <<>>, <<>>)
    IN  IF m.exc # "none" THEN NoMaterial(m.exc, m.pos)
        ELSE IF s.end # "done" THEN NoMaterial(s.end, s.pos)
        ELSE IF d.exc # "none" THEN NoMaterial(d.exc, s.pos)
        ELSE [status |-> "ok", MAT |-> m.MAT, section_text |-> s.text,
              section_data |-> d.data, warnings |-> d.warnings, pos |-> s.pos]

---------------------------------------------------------------------------
(* The Material's interface *)

\* a variant of __contains__ that looks in _section_text
Contains_InText(m, k) == DictHas(m.section_text, k)

\* __contains__
Contains(m, k) == DictHas(m.section_data, k)

\* __getitem__: self._section_data[mf_mt]
GetItem(m, k) ==
    IF DictHas(m.section_data, k) THEN [exc |-> "none", val |-> DictGet(m.section_data, k)]
    ELSE [exc |-> "KeyError", val |-> PyNone]

\* a variant of __setitem__ that stores the value as the section's text too
SetItem_AlsoText(m, k, v) ==
    [m EXCEPT !.section_data = DictSet(@, k, v), !.section_text = DictSet(@, k, v)]

\* __setitem__: self._section_data[key] = value
SetItem(m, k, v) == [m EXCEPT !.section_data = DictSet(@, k, v)]

\* the sections property: list(self._section_text.keys())
Sections(m) == DictKeys(m.section_text)

\* _DictWrapper(d): a new dict holding d's items (dict's own constructor), so
\* not the object d: `shared` says whether a change of it is a change of d
DictWrapper(d) == [shared |-> FALSE, items |-> d]

\* _DictWrapper.__getitem__: the dict's own lookup is made and its result
\* dropped; a missing key raises KeyError
WrapperGetItem(w, k) ==
    IF DictHas(w.items, k) THEN [exc |-> "none", val |-> PyNone]
    ELSE [exc |-> "KeyError", val |-> PyNone]

\* _DictWrapper.__setitem__ is None: w[k] = v raises TypeError, w is as before
WrapperSetItem(w, k, v) == [exc |-> "TypeError", items |-> w.items]

\* the section_text and section_data properties
SectionText(m) == DictWrapper(m.section_text)

SectionData(m) == DictWrapper(m.section_data)

\* the Material's dict d after w, obtained from it, has become w2
Written(d, w, w2) == IF w.shared THEN w2 ELSE d

---------------------------------------------------------------------------
(* One Material: construction from a stream, then calls on its interface *)

\* the keys callers ask for: both section keys with a parser, the key without
\* one, and a key no tape holds; (1,3) and (2,3) are (3,1) and (3,2) swapped
QueryKeys == { <<3, 1>>, <<3, 2>>, <<1, 3>>, <<2, 3>> }

UserValues == { PyUser(1) }

Ret(op, k, exc, val) == [op |-> op, key |-> k, exc |-> exc, val |-> val]

NoRet == Ret("none", <<0, 0>>, "none", PyNone)

\* A run is the construction, up to MaxSets index assignments, and one more
\* call whose result ret keeps.
Observing == ret.op \in {"none", "setitem"}

PhaseAfter(m) ==
    IF m.status = "ok" THEN "built"
    ELSE IF m.status = "never" THEN "diverged"
    ELSE "raised"

Init ==
    /\ tape \in MaterialTapes
    /\ pos = 0
    /\ phase = "new"
    /\ mat = NoMaterial("none", 0)
    /\ materials = <<>>
    /\ ret = NoRet
    /\ nset = 0
    /\ arg = <<>>
    /\ out = <<>>

\* Material(fh)
Construct ==
    /\ phase = "new"
    /\ mat' = MaterialInit(tape, pos)
    /\ pos' = mat'.pos
    /\ phase' = PhaseAfter(mat')
    /\ UNCHANGED <<arg, out, tape, materials, ret, nset>>

\* k in material
CallContains ==
    /\ phase = "built"
    /\ Observing
    /\ \E k \in QueryKeys :
        ret' = Ret("contains", k, "none", [kind |-> "bool", b |-> Contains(mat, k)])
    /\ UNCHANGED <<arg, out, tape, pos, phase, mat, materials, nset>>

\* material[k]
CallGetItem ==
    /\ phase = "built"
    /\ Observing
    /\ \E k \in QueryKeys :
        LET r == GetItem(mat, k) IN ret' = Ret("getitem", k, r.exc, r.val)
    /\ UNCHANGED <<arg, out, tape, pos, phase, mat, materials, nset>>

\* material[k] = v
CallSetItem ==
    /\ phase = "built"
    /\ Observing
    /\ nset < MaxSets
    /\ \E k \in QueryKeys, v \in UserValues :
        /\ mat' = SetItem(mat, k, v)
        /\ ret' = Ret("setitem", k, "none", v)
    /\ nset' = nset + 1
    /\ UNCHANGED <<arg, out, tape, pos, phase, materials>>

\* material.MAT
ReadMAT ==
    /\ phase = "built"
    /\ Observing
    /\ ret' = Ret("MAT", <<0, 0>>, "none", [kind |-> "int", n |-> mat.MAT])
    /\ UNCHANGED <<arg, out, tape, pos, phase, mat, materials, nset>>

\* material.sections
ReadSections ==
    /\ phase = "built"
    /\ Observing
    /\ ret' = Ret("sections", <<0, 0>>, "none", [kind |-> "list", items |-> Sections(mat)])
    /\ UNCHANGED <<arg, out, tape, pos, phase, mat, materials, nset>>

\* material.section_text[k]
ReadSectionTextItem ==
    /\ phase = "built"
    /\ Observing
    /\ \E k \in QueryKeys :
        LET r == WrapperGetItem(SectionText(mat), k)
        IN  ret' = Ret("section_text[]", k, r.exc, r.val)
    /\ UNCHANGED <<arg, out, tape, pos, phase, mat, materials, nset>>

\* material.section_data[k]
ReadSectionDataItem ==
    /\ phase = "built"
    /\ Observing
    /\ \E k \in QueryKeys :
        LET r == WrapperGetItem(SectionData(mat), k)
        IN  ret' = Ret("section_data[]", k, r.exc, r.val)
    /\ UNCHANGED <<arg, out, tape, pos, phase, mat, materials, nset>>

\* material.section_text[k] = v
AssignSectionTextItem ==
    /\ phase = "built"
    /\ Observing
    /\ \E k \in QueryKeys, v \in UserValues :
        LET w == SectionText(mat)
            r == WrapperSetItem(w, k, v)
        IN  /\ ret' = Ret("section_text[]=", k, r.exc, v)
            /\ mat' = [mat EXCEPT !.section_text = Written(@, w, r.items)]
    /\ UNCHANGED <<arg, out, tape, pos, phase, materials, nset>>

\* material.section_data[k] = v
AssignSectionDataItem ==
    /\ phase = "built"
    /\ Observing
    /\ \E k \in QueryKeys, v \in UserValues :
        LET w == SectionData(mat)
            r == WrapperSetItem(w, k, v)
        IN  /\ ret' = Ret("section_data[]=", k, r.exc, v)
            /\ mat' = [mat EXCEPT !.section_data = Written(@, w, r.items)]
    /\ UNCHANGED <<arg, out, tape, pos, phase, materials, nset>>

Next ==
    \/ Construct
    \/ CallContains
    \/ CallGetItem
    \/ CallSetItem
    \/ ReadMAT
    \/ ReadSections
    \/ ReadSectionTextItem
    \/ ReadSectionDataItem
    \/ AssignSectionTextItem
    \/ AssignSectionDataItem

Spec == Init /\ [][Next]_vars

---------------------------------------------------------------------------
(* get_materials: the scan of a whole tape *)

InitTape ==
    /\ tape \in WellFormedTapes
    /\ pos = 0
    /\ phase = "scan"
    /\ mat = NoMaterial("none", 0)
    /\ materials = <<>>
    /\ ret = NoRet
    /\ nset = 0
    /\ arg = <<>>
    /\ out = <<>>

\* one turn of the loop that finds '  -1' in line[66:70]: break
ScanEnd ==
    /\ phase = "scan"
    /\ ReadLine(tape, pos).line.mat = MAT_TEND
    /\ pos' = ReadLine(tape, pos).pos
    /\ phase' = "done"
    /\ UNCHANGED <<arg, out, tape, mat, materials, ret, nset>>

\* one turn of the loop that does not: fh.seek(pos), materials.append(Material(fh))
ScanMaterial ==
    /\ phase = "scan"
    /\ ReadLine(tape, pos).line.mat # MAT_TEND
    /\ mat' = MaterialInit(tape, pos)
    /\ pos' = mat'.pos
    /\ IF mat'.status = "ok"
       THEN materials' = Append(materials, mat') /\ phase' = "scan"
       ELSE materials' = materials /\ phase' = PhaseAfter(mat')
    /\ UNCHANGED <<arg, out, tape, ret, nset>>

NextTape == ScanEnd \/ ScanMaterial

SpecTape == InitTape /\ [][NextTape]_vars

---------------------------------------------------------------------------
(* The layout of a stream, read off its lines (1-based line numbers).       *)
(* These say what the claims mean by the sections of a material; nothing of *)
(* the reader is used.                                                      *)

MTZero(l) == PyInt(l.mt) = [ok |-> TRUE, val |-> 0]

MTPositive(l) == PyInt(l.mt).ok /\ PyInt(l.mt).val > 0

MATZero(l) == PyInt(l.mat) = [ok |-> TRUE, val |-> 0]

MFNonzero(l) == PyInt(l.mf).ok /\ PyInt(l.mf).val # 0

KeyOf(l) == <<PyInt(l.mf).val, PyInt(l.mt).val>>

Least(S) == CHOOSE x \in S : \A y \in S : x <= y

\* the first line of the material a construction at offset p reads: the first
\* line with a nonzero file number, the line at offset 0 not counted
FirstLines(t, p) == { i \in (IF p = 0 THEN 2 ELSE p + 1)..Len(t) : MFNonzero(t[i]) }

\* line j is not inside a section: it is the material's first line or follows
\* a line whose section number is zero
Outside(t, lo, j) == j = lo \/ (j > lo /\ MTZero(t[j - 1]))

\* the material-end line of the material that starts at line lo
MaterialEnds(t, lo) == { j \in lo..Len(t) : MATZero(t[j]) /\ Outside(t, lo, j) }

\* the first lines of the sections of the material in lines lo..hi
SectionStarts(t, lo, hi) == { a \in lo..hi : MTPositive(t[a]) /\ Outside(t, lo, a) }

\* the section that starts at line a ends just before line SectionEnd(t, a)
SectionEnd(t, a) == Least({ j \in (a + 1)..(Len(t) + 1) : j = Len(t) + 1 \/ MTZero(t[j]) })

RECURSIVE Flatten(_)
Flatten(texts) == IF texts = <<>> THEN <<>> ELSE Head(texts) \o Flatten(Tail(texts))

NotMTZero(l) == ~MTZero(l)

\* the texts of the Material, in the order of its sections listing
TextsOf(m) == [i \in 1..Len(m.section_text) |-> m.section_text[i].v.lines]

\* the state a successful construction returns in
JustBuilt == phase = "built" /\ ret = NoRet

\* the material a successful construction from offset 0 of `tape` has read
Lo == Least(FirstLines(tape, 0))

Hi == Least(MaterialEnds(tape, Lo))

\* every section's text is the lines from its first line to just before the next
\* line with section number zero, under the key of its first line
SectionsAsWritten ==
    \A a \in SectionStarts(tape, Lo, Hi) :
        /\ DictHas(mat.section_text, KeyOf(tape[a]))
        /\ DictGet(mat.section_text, KeyOf(tape[a])).lines
              = SubSeq(tape, a, SectionEnd(tape, a) - 1)

\* the lines of the material whose section number is not zero are, in stream
\* order, the section texts one after the other
EveryLineOnce ==
    Flatten(TextsOf(mat)) = SelectSeq(SubSeq(tape, Lo, Hi), NotMTZero)

(* The same layout with sections ended the way the reader ends them: by the *)
(* line whose columns [72,75) are '  0'.                                    *)

IsSEND(l) == l.mt = MT_ZERO

RECURSIVE Inside(_, _, _)
\* line j is a line of a section of the material that starts at line lo: it
\* follows a line of a section and is no '  0' line, or it follows none and
\* its section number is positive
Inside(t, lo, j) ==
    IF j < lo THEN FALSE
    ELSE IF Inside(t, lo, j - 1) THEN ~IsSEND(t[j])
    ELSE MTPositive(t[j]) /\ ~MATZero(t[j])

\* the material-end line: the first line with material number zero that is no
\* line of a section
MaterialEnd(t, lo) ==
    Least({ j \in lo..Len(t) : MATZero(t[j]) /\ ~Inside(t, lo, j - 1) })

\* the first lines of the sections in lines lo..hi
FirstOfSections(t, lo, hi) == { a \in lo..hi : Inside(t, lo, a) /\ ~Inside(t, lo, a - 1) }

\* the section that starts at line a ends just before line EndOfSection(t, a)
EndOfSection(t, a) == Least({ j \in (a + 1)..(Len(t) + 1) : j = Len(t) + 1 \/ IsSEND(t[j]) })

Last == MaterialEnd(tape, Lo)

Greatest(S) == CHOOSE x \in S : \A y \in S : x >= y

\* the first and the last section of the material that start with the key of
\* the section at line a
FirstWithKey(k) ==
    Least({ b \in FirstOfSections(tape, Lo, Last) : KeyOf(tape[b]) = k })

LastWithKey(k) ==
    Greatest({ b \in FirstOfSections(tape, Lo, Last) : KeyOf(tape[b]) = k })

\* under the key of every section is the text, as written, of the last section
\* that starts with that key
SectionsAsRead ==
    \A a \in FirstOfSections(tape, Lo, Last) :
        /\ DictHas(mat.section_text, KeyOf(tape[a]))
        /\ DictGet(mat.section_text, KeyOf(tape[a])).lines
              = SubSeq(tape, LastWithKey(KeyOf(tape[a])),
                       EndOfSection(tape, LastWithKey(KeyOf(tape[a]))) - 1)

\* the keys of the texts are keys of sections, each once, in the order in which
\* the keys first start a section
OnlySections ==
    /\ \A i \in 1..Len(mat.section_text) :
          \E a \in FirstOfSections(tape, Lo, Last) : KeyOf(tape[a]) = mat.section_text[i].k
    /\ \A i, j \in 1..Len(mat.section_text) :
          i < j => FirstWithKey(mat.section_text[i].k) < FirstWithKey(mat.section_text[j].k)

\* no (MF, MT) starts two sections of the material
DistinctKeys ==
    \A a, b \in FirstOfSections(tape, Lo, Last) : KeyOf(tape[a]) = KeyOf(tape[b]) => a = b

\* C1 as stated: after a successful construction, every section of the material
\* is stored as written, up to the first line whose section number reads as
\* zero, under its key; end records are in no text and every other line of the
\* material is in exactly one text, in stream order.
C1_SplitAsStated ==
    JustBuilt => SectionsAsWritten /\ EveryLineOnce

\* C1 (amended): a section ends just before the first line whose columns
\* [72,75) are '  0'; under the (MF, MT) of every section the text of the last
\* section that starts with that (MF, MT) is stored as written, and nothing is
\* stored under any other key; the keys are in the order of their first sections.
C1_SplitLastWins ==
    JustBuilt => SectionsAsRead /\ OnlySections

\* C1 witness: a Material built from two sections, one of them of two lines.
C1_Witness ==
    /\ JustBuilt
    /\ DistinctKeys
    /\ Cardinality(FirstOfSections(tape, Lo, Last)) = 2
    /\ \E i \in 1..Len(mat.section_text) : Len(mat.section_text[i].v.lines) = 2

\* a Material built from a stream in which a section's end record is written
\* 000: the section holds that record and the section after it
ZeroWrittenOtherwise ==
    /\ JustBuilt
    /\ \E j \in Lo..Last : tape[j].mt = MT_000
    /\ \E i \in 1..Len(mat.section_text) : Len(mat.section_text[i].v.lines) >= 3

\* C3 as stated: construction ends on every finite stream, by returning or by
\* raising; it never stays in a loop.
C3_ConstructionEnds == phase # "diverged"

InSeq(x, q) == \E i \in 1..Len(q) : q[i] = x

HasParser(k) == Dispatch(k[1], k[2]) # "ignored"

\* the stream without its lines a..b
RemoveLines(t, a, b) == SubSeq(t, 1, a - 1) \o SubSeq(t, b + 1, Len(t))

\* what Material() gives on `tape` without the section that starts at line a
\* (its lines and its SEND)
Without(a) == MaterialInit(RemoveLines(tape, a, EndOfSection(tape, a)), 0)

\* the first lines of the sections that have no parser
UnknownSections(lo, hi) ==
    { a \in FirstOfSections(tape, lo, hi) : ~HasParser(KeyOf(tape[a])) }

\* the Material has, for every key but u, the text and the data that m has
SameButFor(u, m) ==
    \A i \in 1..Len(mat.section_text) :
        LET k == mat.section_text[i].k
        IN  k # u =>
              /\ m.status = "ok"
              /\ DictHas(m.section_text, k)
              /\ DictGet(m.section_text, k) = mat.section_text[i].v
              /\ DictHas(m.section_data, k) <=> DictHas(mat.section_data, k)
              /\ DictHas(m.section_data, k) =>
                    DictGet(m.section_data, k) = DictGet(mat.section_data, k)

\* C5: a section without a parser does not stop the construction (a stream that
\* builds without it builds with it); its key is in sections, a warning names
\* it, its text is kept as written, it has no parsed data; and every other
\* section has the text and data it has when the section is not in the stream.
C5_UnknownSectionKept ==
    /\ JustBuilt =>
          \A a \in UnknownSections(Lo, Last) :
              LET u == KeyOf(tape[a])
              IN  /\ InSeq(u, Sections(mat))
                  /\ InSeq(u, mat.warnings)
                  /\ \E b \in UnknownSections(Lo, Last) :
                        /\ KeyOf(tape[b]) = u
                        /\ DictGet(mat.section_text, u).lines
                              = SubSeq(tape, b, EndOfSection(tape, b) - 1)
                  /\ ~DictHas(mat.section_data, u)
                  /\ SameButFor(u, Without(a))
    /\ (phase \in {"raised", "diverged"} /\ FirstLines(tape, 0) # {}) =>
          \A a \in UnknownSections(Lo, Len(tape)) : Without(a).status # "ok"

\* C5 witness: a Material built from a stream with a section without a parser
\* and a section with one.
C5_Witness ==
    /\ JustBuilt
    /\ UnknownSections(Lo, Last) # {}
    /\ mat.section_data # <<>>
    /\ mat.warnings # <<>>

\* C6 as stated: section_data[k] is the mapping material[k] returns, for every
\* key with parsed data, and section_text[k] is the stored text, for every key
\* in sections.
C6_LookupReturnsStored ==
    /\ (ret.op = "section_data[]" /\ DictHas(mat.section_data, ret.key)) =>
          (ret.exc = "none" /\ ret.val = GetItem(mat, ret.key).val)
    /\ (ret.op = "section_text[]" /\ InSeq(ret.key, Sections(mat))) =>
          (ret.exc = "none" /\ ret.val = DictGet(mat.section_text, ret.key))

\* C7: k in material is true exactly when parsed data is stored under the
\* ordered pair k; right after construction these keys are the keys of sections
\* that have a parser.
C7_ContainsIsStoredData ==
    /\ ret.op = "contains" =>
          (ret.val.b <=> \E i \in 1..Len(mat.section_data) : mat.section_data[i].k = ret.key)
    /\ (ret.op = "contains" /\ nset = 0) =>
          (ret.val.b <=> (InSeq(ret.key, Sections(mat)) /\ HasParser(ret.key)))

\* C7 witness: (1,3) is asked for and not contained, though it is a section of
\* the Material, and (3,1) has parsed data.
C7_Witness ==
    /\ ret.op = "contains"
    /\ ret.key = <<1, 3>>
    /\ ~ret.val.b
    /\ InSeq(<<1, 3>>, Sections(mat))
    /\ DictHas(mat.section_data, <<3, 1>>)

\* the parsed data under every key but k is the same in m1 and m2
SameDataButFor(k, m1, m2) ==
    \A q \in QueryKeys \ {k} :
        /\ DictHas(m1.section_data, q) <=> DictHas(m2.section_data, q)
        /\ DictHas(m1.section_data, q) =>
              DictGet(m1.section_data, q) = DictGet(m2.section_data, q)

\* C8: once built, the Material changes only in a step that is an index
\* assignment material[k] = v, and then only in the parsed data under k: MAT,
\* the sections listing, the texts and the data under other keys stay.
C8_OnlySetItemWrites ==
    [][ phase = "built" =>
          /\ mat' # mat => ret'.op = "setitem"
          /\ ret'.op = "setitem" =>
                /\ mat'.MAT = mat.MAT
                /\ Sections(mat') = Sections(mat)
                /\ mat'.section_text = mat.section_text
                /\ SameDataButFor(ret'.key, mat, mat')
                /\ DictHas(mat'.section_data, ret'.key)
                /\ DictGet(mat'.section_data, ret'.key) = ret'.val ]_vars

\* C8 witness: an index assignment has replaced the parsed data of one section
\* of a Material that holds another.
C8_Witness ==
    /\ ret.op = "setitem"
    /\ Len(mat.section_data) = 2
    /\ InSeq(ret.key, Sections(mat))
    /\ DictGet(mat.section_data, ret.key) = ret.val

\* the material-end lines of a tape, and the i-th of them
MendLines(t) == { j \in 1..Len(t) : MATZero(t[j]) }

NthMend(t, i) == CHOOSE j \in MendLines(t) : Cardinality({ x \in MendLines(t) : x <= j }) = i

\* the lines of the i-th material of a tape that starts with a TPID line
MaterialLines(t, i) == SubSeq(t, IF i = 1 THEN 2 ELSE NthMend(t, i - 1) + 1, NthMend(t, i))

\* m is the Material that the i-th material of the tape gives when it is read
\* on its own
IsMaterialOf(m, t, i) ==
    LET alone == MaterialInit(<<TPID>> \o MaterialLines(t, i), 0)
    IN  /\ alone.status = "ok"
        /\ m.MAT = alone.MAT
        /\ m.section_text = alone.section_text
        /\ m.section_data = alone.section_data

\* the scan has returned the materials of the tape, one Material each, in order
ScanResult ==
    /\ Len(materials) = Cardinality(MendLines(tape))
    /\ \A i \in 1..Len(materials) : IsMaterialOf(materials[i], tape, i)

\* each construction has consumed its material's end line and nothing after it
ScanPosition ==
    pos = IF materials = <<>> THEN 0 ELSE NthMend(tape, Len(materials))

\* C2 as stated: on a tape of TPID, k materials and TEND, get_materials returns
\* the k Materials in tape order; each construction leaves the stream right
\* after its material-end line; the scan stops at TEND.
C2_ScanAsStated ==
    /\ phase \in {"scan", "done"}
    /\ phase = "scan" => ScanPosition
    /\ phase = "done" => ScanResult /\ pos = Len(tape)

\* The same for the tapes that hold a material (k >= 1).
ScanOfNonEmptyTape == Cardinality(MendLines(tape)) >= 1 => C2_ScanAsStated

---------------------------------------------------------------------------
(* The dispatch on its own: one section key, the rule it is handled by *)

MaxMF == 99     \* MF = int(line[70:72]): two columns
MaxMT == 999    \* MT = int(line[72:75]): three columns, positive for a section

InitDispatch ==
    /\ arg \in (0..MaxMF) \X (1..MaxMT)
    /\ out = ""
    /\ phase = "call"
    /\ tape = <<>>
    /\ pos = 0
    /\ mat = NoMaterial("none", 0)
    /\ materials = <<>>
    /\ ret = NoRet
    /\ nset = 0

ApplyDispatch ==
    /\ phase = "call"
    /\ out' = Dispatch(arg[1], arg[2])
    /\ phase' = "returned"
    /\ UNCHANGED <<arg, tape, pos, mat, materials, ret, nset>>

NextDispatch == ApplyDispatch

SpecDispatch == InitDispatch /\ [][NextDispatch]_vars

\* the rules as the claim lists them: the pairs that have a parser of their own
\* (pairs on one line share it) ...
ClaimedPairRules ==
    { [keys |-> {<<1, 451>>}, parser |-> "parse_mf1_mt451"],
      [keys |-> {<<1, 452>>, <<1, 456>>}, parser |-> "parse_mf1_mt452"],
      [keys |-> {<<1, 455>>}, parser |-> "parse_mf1_mt455"],
      [keys |-> {<<1, 458>>}, parser |-> "parse_mf1_mt458"],
      [keys |-> {<<1, 460>>}, parser |-> "parse_mf1_mt460"],
      [keys |-> {<<2, 151>>}, parser |-> "parse_mf2"],
      [keys |-> {<<7, 2>>}, parser |-> "parse_mf7_mt2"],
      [keys |-> {<<7, 4>>}, parser |-> "parse_mf7_mt4"],
      [keys |-> {<<7, 451>>}, parser |-> "parse_mf7_mt451"],
      [keys |-> {<<8, 454>>, <<8, 459>>}, parser |-> "parse_mf8_mt454"],
      [keys |-> {<<8, 457>>}, parser |-> "parse_mf8_mt457"] }

\* ... and the file numbers whose other sections go to the file's parser
ClaimedFileRules ==
    { [mf |-> {3}, parser |-> "parse_mf3"], [mf |-> {4}, parser |-> "parse_mf4"],
      [mf |-> {5}, parser |-> "parse_mf5"], [mf |-> {6}, parser |-> "parse_mf6"],
      [mf |-> {8}, parser |-> "parse_mf8"], [mf |-> {9, 10}, parser |-> "parse_mf9_mf10"],
      [mf |-> {12}, parser |-> "parse_mf12"], [mf |-> {13}, parser |-> "parse_mf13"],
      [mf |-> {14}, parser |-> "parse_mf14"], [mf |-> {15}, parser |-> "parse_mf15"],
      [mf |-> {23}, parser |-> "parse_mf23"], [mf |-> {26}, parser |-> "parse_mf26"],
      [mf |-> {27}, parser |-> "parse_mf27"], [mf |-> {28}, parser |-> "parse_mf28"],
      [mf |-> {33}, parser |-> "parse_mf33"], [mf |-> {34}, parser |-> "parse_mf34"],
      [mf |-> {40}, parser |-> "parse_mf40"] }

PairRulesFor(k) == { r \in ClaimedPairRules : k \in r.keys }

FileRulesFor(k) == { r \in ClaimedFileRules : k[1] \in r.mf }

\* C9: a key with a pair rule goes to that rule's parser; any other key whose
\* file number has a file rule goes to that file's parser; every remaining key
\* is ignored.
C9_OneRulePerKey ==
    phase = "returned" =>
        /\ Cardinality(PairRulesFor(arg)) <= 1 /\ Cardinality(FileRulesFor(arg)) <= 1
        /\ PairRulesFor(arg) # {} => \A r \in PairRulesFor(arg) : out = r.parser
        /\ (PairRulesFor(arg) = {} /\ FileRulesFor(arg) # {}) =>
              \A r \in FileRulesFor(arg) : out = r.parser
        /\ (PairRulesFor(arg) = {} /\ FileRulesFor(arg) = {}) => out = "ignored"

\* C9 witness: (8,457), which has a pair rule and a file rule, went to the
\* parser of the pair.
C9_Witness ==
    /\ phase = "returned"
    /\ arg = <<8, 457>>
    /\ out = "parse_mf8_mt457"

---------------------------------------------------------------------------
(* Decoding a float field.  A float is kept exactly, as m * 10^e with m not *)
(* a multiple of 10 (zero is 0 * 10^0); rounding to a double is left out.   *)

RECURSIVE Float(_, _)
Float(m, e) ==
    IF m = 0 THEN [kind |-> "float", m |-> 0, e |-> 0]
    ELSE IF m % 10 = 0 THEN Float(m \div 10, e + 1)
    ELSE [kind |-> "float", m |-> m, e |-> e]

\* the outcome of a call that raises ValueError
ValueError == [kind |-> "ValueError"]

\* a field to which the description of float_endf gives no value
Unspecified == [kind |-> "unspecified"]

IsBlank(c) == c = " "

NotBlank(c) == c # " "

AllDigits(s) == SelectSeq(s, IsDigit) = s

\* the places of character c in s
Places(s0, c) == The({ { i \in 1..Len(s) : s[i] = c } : s \in {s0} })

RECURSIVE Before(_, _)
\* the part of s before its first c (all of s when it has none)
Before(s0, c) ==
    The({ IF s = <<>> \/ Head(s) = c THEN <<>> ELSE <<Head(s)>> \o Before(Tail(s), c)
          : s \in {s0} })

\* the part of s after its first c (nothing when it has none)
After(s0, c) == The({ SubSeq(s, Len(Before(s, c)) + 2, Len(s)) : s \in {s0} })

\* s without its leading sign
Unsigned(s0) ==
    The({ IF s # <<>> /\ Head(s) \in {"+", "-"} THEN Tail(s) ELSE s : s \in {s0} })

\* a mantissa [sign] digits [. digits] with a digit in it: the signed number
\* its digits make and the count of digits after the point
Mantissa(m0) ==
    The({ [ok |-> AllDigits(d.int) /\ AllDigits(d.frac) /\ d.int \o d.frac # <<>>,
           val |-> IF d.neg THEN 0 - DigitsValue(SelectSeq(d.int \o d.frac, IsDigit), 0)
                   ELSE DigitsValue(SelectSeq(d.int \o d.frac, IsDigit), 0),
           places |-> Len(d.frac)]
          : d \in { [neg |-> m0 # <<>> /\ Head(m0) = "-",
                     int |-> Before(Unsigned(m0), "."),
                     frac |-> After(Unsigned(m0), ".")] } })

\* an exponent [sign] digits
Exponent(x0) ==
    The({ [ok |-> r.ok /\ SelectSeq(x0, NotBlank) = x0, val |-> r.val]
          : r \in { PyInt(x0) } })

\* a literal [sign] digits [. digits] [e [sign] digits], with a digit in the
\* mantissa: its value; any other string: `bad`
DecimalLiteral(t0, bad) ==
    The({ IF ~p.m.ok \/ (p.marked /\ ~p.x.ok) THEN bad
          ELSE Float(p.m.val, (IF p.marked THEN p.x.val ELSE 0) - p.m.places)
          : p \in { The({ [m |-> Mantissa(Before(t, "e")),
                           marked |-> Len(Before(t, "e")) < Len(t),
                           x |-> Exponent(After(t, "e"))] : t \in {t0} }) } })

RECURSIVE InsertMarker(_, _, _)
\* the exponent marker made explicit: E, d and D become e, and a sign that
\* follows the mantissa (a digit or the point has been met, and the character
\* before is no marker) gets an e before it
InsertMarker(s0, started, marked) ==
    The({ IF s = <<>> THEN <<>>
          ELSE LET c == Head(s)
               IN  IF c \in {"e", "E", "d", "D"}
                   THEN <<"e">> \o InsertMarker(Tail(s), started, TRUE)
                   ELSE IF c \in {"+", "-"} /\ started /\ ~marked
                   THEN <<"e", c>> \o InsertMarker(Tail(s), started, TRUE)
                   ELSE <<c>> \o InsertMarker(Tail(s), started \/ IsDigit(c) \/ c = ".", FALSE)
          : s \in {s0} })

\* a variant of float_endf that inserts no marker: only E, d and D are read
\* as the exponent marker
float_endf_MarkedOnly(s) ==
    The({ IF t = <<>> THEN Float(0, 0)
          ELSE DecimalLiteral([i \in 1..Len(t) |-> IF t[i] \in {"E", "d", "D"} THEN "e" ELSE t[i]],
                              Unspecified)
          : t \in { SelectSeq(s, NotBlank) } })

\* a variant of float_endf that gives 0.0 for whatever it cannot read as a
\* number
float_endf_ZeroOnFailure(s) ==
    The({ IF t = <<>> THEN Float(0, 0)
          ELSE DecimalLiteral(InsertMarker(t, FALSE, FALSE), Float(0, 0))
          : t \in { SelectSeq(s, NotBlank) } })

\* float_endf of the compiled module _records: blanks are dropped wherever they
\* are, an all-blank field is 0.0, the implicit exponent marker is inserted and
\* the result is read as a decimal literal; it never raises
float_endf(s) ==
    The({ IF t = <<>> THEN Float(0, 0)
          ELSE DecimalLiteral(InsertMarker(t, FALSE, FALSE), Unspecified)
          : t \in { SelectSeq(s, NotBlank) } })

RECURSIVE SkipDigits(_, _)
\* \d* from place i of s: the place after the digits
SkipDigits(s, i) == IF i <= Len(s) /\ IsDigit(s[i]) THEN SkipDigits(s, i + 1) ELSE i

\* s[i] when there is one, else no character
At(s, i) == IF i >= 1 /\ i <= Len(s) THEN s[i] ELSE ""

\* ENDF_FLOAT_RE matched at place i of s: ([\s\-\+]?\d*\.\d+)([\+\-]) ?(\d+).
\* The classes that follow one another share no character, so the greedy match
\* is the only one.
MatchAt(s, i) ==
    The({ IF At(s, q.b) = "." /\ q.c > q.b + 1 /\ At(s, q.c) \in {"+", "-"} /\ q.f > q.d
          THEN [ok |-> TRUE, g1 |-> SubSeq(s, i, q.c - 1), g2 |-> At(s, q.c),
                g3 |-> SubSeq(s, q.d, q.f - 1), end |-> q.f]
          ELSE [ok |-> FALSE, g1 |-> <<>>, g2 |-> "", g3 |-> <<>>, end |-> i]
          : q \in { The({ [b |-> b, c |-> c,
                           d |-> IF At(s, c + 1) = " " THEN c + 2 ELSE c + 1,
                           f |-> SkipDigits(s, IF At(s, c + 1) = " " THEN c + 2 ELSE c + 1)]
                          : c \in { SkipDigits(s, b + 1) } })
                    : b \in { SkipDigits(s, IF At(s, i) \in {" ", "-", "+"} THEN i + 1 ELSE i) } } })

RECURSIVE RegexSub(_, _)
\* ENDF_FLOAT_RE.sub(r'\1e\2\3', s), from place i on
RegexSub(s, i) ==
    IF i > Len(s) THEN <<>>
    ELSE The({ IF m.ok THEN m.g1 \o <<"e", m.g2>> \o m.g3 \o RegexSub(s, m.end)
               ELSE <<s[i]>> \o RegexSub(s, i + 1)
               : m \in { MatchAt(s, i) } })

\* float(s) of Python: blanks around the literal are dropped, e and E mark the
\* exponent; anything that is no literal is ValueError
PyFloat(s) ==
    The({ DecimalLiteral([i \in 1..Len(t) |-> IF t[i] = "E" THEN "e" ELSE t[i]], ValueError)
          : t \in { RStrip(LStrip(s)) } })

py_float_endf(s) == PyFloat(RegexSub(s, 1))

---------------------------------------------------------------------------
(* The float decoders on their own: one field, the value decoded from it *)

MaxFieldLen == 5    \* length of the fields made of every character below

FieldChars == {" ", "+", "-", ".", "0", "1", "2", "e", "D"}

RECURSIVE StringsUpTo(_)
StringsUpTo(n) ==
    IF n = 0 THEN {<<>>}
    ELSE LET S == StringsUpTo(n - 1)
         IN  S \cup { Append(x, c) : x \in S, c \in FieldChars }

\* the fields of tests/test_records.py (exponents 23 shortened to 5)
TestFields ==
    { <<"+", "3", ".", "2", "1", "4", "6">>,
      <<"-", "2", ".", "2", "2", "5", "0", "0", "2", "+", "6">>,
      <<".", "1", "2", "3", "4", "5">>,
      <<"6", ".", "0", "2", "2", "+", "5">>,
      <<"6", ".", "0", "2", "2", "-", "5">>,
      <<" ", "+", "1", ".", "0", "1", "+", " ", "2">>,
      <<" ", "-", "1", ".", "0", "1", "-", " ", "2">>,
      <<"+", " ", "2", " ", ".", " ", "3", "+", " ", "1">>,
      <<"-", "7", " ", ".", "8", " ", "-", "1">>,
      <<"3", ".", "1", "4", "e", "0">>,
      <<"3", ".", "1", "4", "E", "0">>,
      <<"3", ".", "1", "4", "e", "-", "1">>,
      <<"3", ".", "1", "4", "d", "0">>,
      <<"3", ".", "1", "4", "D", "0">>,
      <<"3", ".", "1", "4", "d", "-", "1">>,
      <<"1", "+", "2">>,
      <<"-", "1", "+", "2">>,
      <<"1", ".", "+", "2">>,
      <<"-", "1", ".", "+", "2">>,
      <<" ", " ", " ", " ", " ", " ", " ", " ">> }

InitFloat ==
    /\ arg \in StringsUpTo(MaxFieldLen) \cup TestFields
    /\ out = <<>>
    /\ phase = "call"
    /\ tape = <<>>
    /\ pos = 0
    /\ mat = NoMaterial("none", 0)
    /\ materials = <<>>
    /\ ret = NoRet
    /\ nset = 0

CallFloatEndf ==
    /\ phase = "call"
    /\ out' = float_endf(arg)
    /\ phase' = "float_endf"
    /\ UNCHANGED <<arg, tape, pos, mat, materials, ret, nset>>

CallPyFloatEndf ==
    /\ phase = "call"
    /\ out' = py_float_endf(arg)
    /\ phase' = "py_float_endf"
    /\ UNCHANGED <<arg, tape, pos, mat, materials, ret, nset>>

NextFloat == CallFloatEndf \/ CallPyFloatEndf

SpecFloat == InitFloat /\ [][NextFloat]_vars

\* The grammar of the claim, on a field g without its blanks: g is i sign
\* characters, a mantissa up to place j and an exponent after it.
IsMantissa(m) ==
    /\ \A k \in 1..Len(m) : IsDigit(m[k]) \/ m[k] = "."
    /\ Cardinality(Places(m, ".")) <= 1
    /\ \E k \in 1..Len(m) : IsDigit(m[k])

IsSignedDigits(x) == x # <<>> /\ Head(x) \in {"+", "-"} /\ Tail(x) # <<>> /\ AllDigits(Tail(x))

IsExponent(x) ==
    \/ x = <<>>
    \/ /\ x # <<>> /\ Head(x) \in {"e", "E", "d", "D"}
       /\ IsSignedDigits(Tail(x)) \/ (Tail(x) # <<>> /\ AllDigits(Tail(x)))
    \/ IsSignedDigits(x)

Decomposes(g, i, j) ==
    /\ i = 1 => g[1] \in {"+", "-"}
    /\ IsMantissa(SubSeq(g, i + 1, j))
    /\ IsExponent(SubSeq(g, j + 1, Len(g)))

\* the digits of a mantissa as an integer, and the number of them after the point
MantissaDigits(m) == DigitsValue(SelectSeq(m, IsDigit), 0)

DigitsAfterPoint(m) == IF Places(m, ".") = {} THEN 0 ELSE Len(m) - (CHOOSE k \in Places(m, ".") : TRUE)

ExponentValue(x) ==
    IF x = <<>> THEN 0
    ELSE IF Head(x) \in {"e", "E", "d", "D"} THEN PyInt(Tail(x)).val
    ELSE PyInt(x).val

\* sign * mantissa * 10^exponent
ClaimedValue(g, i, j) ==
    LET m == SubSeq(g, i + 1, j)
        v == MantissaDigits(m)
    IN  Float(IF i = 1 /\ g[1] = "-" THEN 0 - v ELSE v,
              ExponentValue(SubSeq(g, j + 1, Len(g))) - DigitsAfterPoint(m))

\* the examples the claim gives
ClaimedExamples ==
    { [field |-> <<"-", "2", ".", "2", "2", "5", "0", "0", "2", "+", "6">>,
       value |-> Float(0 - 2225002, 0)],
      [field |-> <<" ", "+", "1", ".", "0", "1", "+", " ", "2">>,
       value |-> Float(101, 0)],
      [field |-> <<"+", " ", "2", " ", ".", " ", "3", "+", " ", "1">>,
       value |-> Float(23, 0)],
      [field |-> <<"-", "7", " ", ".", "8", " ", "-", "1">>,
       value |-> Float(0 - 78, 0 - 2)],
      [field |-> <<"1", "+", "2">>,
       value |-> Float(100, 0)],
      [field |-> <<"1", ".", "+", "2">>,
       value |-> Float(100, 0)],
      [field |-> <<"3", ".", "1", "4", "d", "-", "1">>,
       value |-> Float(314, 0 - 3)] }

\* C10: float_endf of a field that is, blanks apart, an optional sign, a
\* mantissa and an optional exponent (after e, E, d, D or a bare sign) is
\* sign * mantissa * 10^exponent; the examples of the claim have the values it
\* gives.
C10_FloatValue ==
    phase = "float_endf" =>
        /\ LET g == SelectSeq(arg, NotBlank)
           IN  \A i \in 0..1, j \in 0..Len(g) :
                   (i <= j /\ i <= Len(g) /\ Decomposes(g, i, j)) => out = ClaimedValue(g, i, j)
        /\ \A x \in ClaimedExamples : arg = x.field => out = x.value

\* C10 witness: '+ 2 . 3+ 1', with blanks inside mantissa and exponent and a
\* bare sign before the exponent, was decoded to 23.
C10_Witness ==
    /\ phase = "float_endf"
    /\ arg = <<"+", " ", "2", " ", ".", " ", "3", "+", " ", "1">>
    /\ out = Float(23, 0)

\* the field, blanks apart, is a number of the claimed grammar whose mantissa
\* has no digit but 0
WrittenZero(g) ==
    \E i \in 0..1, j \in 0..Len(g) :
        /\ i <= j /\ i <= Len(g) /\ Decomposes(g, i, j)
        /\ MantissaDigits(SubSeq(g, i + 1, j)) = 0

---------------------------------------------------------------------------
(* The record readers of records.py.  The stream is the sequence of its     *)
(* lines, each a sequence of characters, read from line offset p.  A reader *)
(* gives what it returns or the exception it raises, the offset it leaves   *)
(* the stream at, and `missing`: how many of its readline() calls met the   *)
(* end of the stream.                                                       *)

Min(a, b) == IF a < b THEN a ELSE b

\* s[a:b] for 0 <= a <= b
Slice(s, a, b) == IF a >= Len(s) \/ a >= b THEN <<>> ELSE SubSeq(s, a + 1, Min(b, Len(s)))

\* file_obj.readline(): '' at the end of the stream
FileReadline(lines, p) ==
    IF p < Len(lines) THEN [line |-> lines[p + 1], pos |-> p + 1, eof |-> 0]
    ELSE [line |-> <<>>, pos |-> p, eof |-> 1]

Returned(val, p, missing) == [exc |-> "none", val |-> val, pos |-> p, missing |-> missing]

Raised(exc, p, missing) == [exc |-> exc, val |-> PyNone, pos |-> p, missing |-> missing]

\* s.isspace(): false for ''
IsSpace(s) == s # <<>> /\ SelectSeq(s, IsBlank) = s

\* a variant of int_endf without the rule for blank fields
int_endf_AsInt(s) == PyInt(s)

int_endf(s) == IF IsSpace(s) THEN [ok |-> TRUE, val |-> 0] ELSE PyInt(s)

RECURSIVE Pow10(_)
Pow10(n) == IF n <= 0 THEN 1 ELSE 10 * Pow10(n - 1)

\* int(x) of a float: the digits after the point are cut off
IntOfFloat(x) ==
    IF x.kind # "float" THEN x
    ELSE IF x.e >= 0 THEN x.m * Pow10(x.e)
    ELSE IF x.m >= 0 THEN x.m \div Pow10(0 - x.e)
    ELSE 0 - ((0 - x.m) \div Pow10(0 - x.e))

get_text_record(lines, p) ==
    LET r == FileReadline(lines, p)
    IN  Returned([kind |-> "str", chars |-> Slice(r.line, 0, 66)], r.pos, r.eof)

get_cont_record(lines, p, skip_c) ==
    The({ The({ IF f.L1.ok /\ f.L2.ok /\ f.N1.ok /\ f.N2.ok
                THEN Returned(<<f.C1, f.C2, f.L1.val, f.L2.val, f.N1.val, f.N2.val>>,
                              r.pos, r.eof)
                ELSE Raised("ValueError", r.pos, r.eof)
                : f \in {[C1 |-> IF skip_c THEN PyNone
                                 ELSE float_endf(Slice(r.line, 0, 11)),
                          C2 |-> IF skip_c THEN PyNone
                                 ELSE float_endf(Slice(r.line, 11, 22)),
                          L1 |-> int_endf(Slice(r.line, 22, 33)),
                          L2 |-> int_endf(Slice(r.line, 33, 44)),
                          N1 |-> int_endf(Slice(r.line, 44, 55)),
                          N2 |-> int_endf(Slice(r.line, 55, 66))]} })
          : r \in {FileReadline(lines, p)} })

get_head_record(lines, p) ==
    The({ The({ IF f.L1.ok /\ f.L2.ok /\ f.N1.ok /\ f.N2.ok
                THEN Returned(<<f.ZA, f.AWR, f.L1.val, f.L2.val, f.N1.val, f.N2.val>>,
                              r.pos, r.eof)
                ELSE Raised("ValueError", r.pos, r.eof)
                : f \in {[ZA |-> IntOfFloat(float_endf(Slice(r.line, 0, 11))),
                          AWR |-> float_endf(Slice(r.line, 11, 22)),
                          L1 |-> int_endf(Slice(r.line, 22, 33)),
                          L2 |-> int_endf(Slice(r.line, 33, 44)),
                          N1 |-> int_endf(Slice(r.line, 44, 55)),
                          N2 |-> int_endf(Slice(r.line, 55, 66))]} })
          : r \in {FileReadline(lines, p)} })

RECURSIVE ListItems_ExtraLine(_, _, _, _)
\* a variant of the loop with NPL // 6 + 1 turns: one line too many when NPL
\* is a multiple of 6
ListItems_ExtraLine(lines, NPL, i, st0) ==
    LET Turn(st) ==
            IF i >= (NPL \div 6) + 1 THEN st
            ELSE LET r == FileReadline(lines, st.pos)
                     n == Min(6, NPL - 6 * i)
                 IN  ListItems_ExtraLine(lines, NPL, i + 1,
                         [pos |-> r.pos, missing |-> st.missing + r.eof,
                          b |-> st.b \o [j \in 1..n |->
                                            float_endf(Slice(r.line, 11 * (j - 1), 11 * j))]])
    IN  The({ Turn(s) : s \in {st0} })

RECURSIVE ListItems(_, _, _, _)
\* the loop over the data lines of a LIST record, from its turn i; st holds the
\* offset, the array b filled so far and the count of missing lines
ListItems(lines, NPL, i, st0) ==
    LET Turn(st) ==
            IF i >= ((NPL - 1) \div 6) + 1 THEN st
            ELSE LET r == FileReadline(lines, st.pos)
                     n == Min(6, NPL - 6 * i)
                 IN  ListItems(lines, NPL, i + 1,
                         [pos |-> r.pos, missing |-> st.missing + r.eof,
                          b |-> st.b \o [j \in 1..n |->
                                            float_endf(Slice(r.line, 11 * (j - 1), 11 * j))]])
    IN  The({ Turn(s) : s \in {st0} })

\* NPL is items[4]; np.zeros(NPL) raises for a negative NPL
get_list_record(lines, p) ==
    The({ IF items.exc # "none" THEN items
          ELSE IF items.val[5] < 0 THEN Raised("ValueError", items.pos, items.missing)
          ELSE The({ Returned(<<items.val, st.b>>, st.pos, st.missing)
                     : st \in {ListItems(lines, items.val[5], 0,
                                         [pos |-> items.pos, missing |-> items.missing,
                                          b |-> <<>>])} })
          : items \in {get_cont_record(lines, p, FALSE)} })

RECURSIVE Tab1Regions(_, _, _, _)
\* get_tab1_record's loop over the lines of (NBT, INT) pairs, from its turn i;
\* the pair number j of a line is in columns [22j, 22j + 22), which is what
\* line = line[22:] after every pair comes to
Tab1Regions(lines, n_regions, i, st0) ==
    LET Turn(st) ==
            IF st.exc # "none" \/ i >= ((n_regions - 1) \div 3) + 1 THEN st
            ELSE LET r == FileReadline(lines, st.pos)
                     to_read == Min(3, n_regions - Len(st.breakpoints))
                     nbt == [j \in 1..to_read |-> int_endf(Slice(r.line, 22 * (j - 1), 22 * (j - 1) + 11))]
                     law == [j \in 1..to_read |-> int_endf(Slice(r.line, 22 * (j - 1) + 11, 22 * j))]
                     ok == \A j \in 1..to_read : nbt[j].ok /\ law[j].ok
                 IN  Tab1Regions(lines, n_regions, i + 1,
                         [pos |-> r.pos, missing |-> st.missing + r.eof,
                          exc |-> IF ok THEN "none" ELSE "ValueError",
                          breakpoints |-> st.breakpoints \o [j \in 1..to_read |-> nbt[j].val],
                          interpolation |-> st.interpolation \o [j \in 1..to_read |-> law[j].val]])
    IN  The({ Turn(s) : s \in {st0} })

RECURSIVE Tab1Pairs_SameFields(_, _, _, _)
\* a variant of the loop without line = line[22:]: every pair of a line is
\* read from its first two fields
Tab1Pairs_SameFields(lines, n_pairs, i, st0) ==
    LET Turn(st) ==
            IF i >= ((n_pairs - 1) \div 3) + 1 THEN st
            ELSE LET r == FileReadline(lines, st.pos)
                     to_read == Min(3, n_pairs - Len(st.x))
                 IN  Tab1Pairs_SameFields(lines, n_pairs, i + 1,
                         [pos |-> r.pos, missing |-> st.missing + r.eof,
                          x |-> st.x \o [j \in 1..to_read |-> float_endf(Slice(r.line, 0, 11))],
                          y |-> st.y \o [j \in 1..to_read |-> float_endf(Slice(r.line, 11, 22))]])
    IN  The({ Turn(s) : s \in {st0} })

RECURSIVE Tab1Pairs(_, _, _, _)
\* get_tab1_record's loop over the lines of (x, y) pairs
Tab1Pairs(lines, n_pairs, i, st0) ==
    LET Turn(st) ==
            IF i >= ((n_pairs - 1) \div 3) + 1 THEN st
            ELSE LET r == FileReadline(lines, st.pos)
                     to_read == Min(3, n_pairs - Len(st.x))
                 IN  Tab1Pairs(lines, n_pairs, i + 1,
                         [pos |-> r.pos, missing |-> st.missing + r.eof,
                          x |-> st.x \o [j \in 1..to_read |->
                                    float_endf(Slice(r.line, 22 * (j - 1), 22 * (j - 1) + 11))],
                          y |-> st.y \o [j \in 1..to_read |->
                                    float_endf(Slice(r.line, 22 * (j - 1) + 11, 22 * j))]])
    IN  The({ Turn(s) : s \in {st0} })

\* an array handed to a call that also takes None
Given(a) == [kind |-> "ndarray", items |-> a]

\* Tabulated1D.__init__: one linear-linear region where breakpoints or
\* interpolation is None
Tabulated1D(x, y, breakpoints, interpolation) ==
    IF breakpoints.kind = "None" \/ interpolation.kind = "None"
    THEN [kind |-> "Tabulated1D", x |-> x, y |-> y,
          breakpoints |-> <<Len(x)>>, interpolation |-> <<2>>]
    ELSE [kind |-> "Tabulated1D", x |-> x, y |-> y,
          breakpoints |-> breakpoints.items, interpolation |-> interpolation.items]

Tabulated2D(breakpoints, interpolation) ==
    [kind |-> "Tabulated2D", breakpoints |-> breakpoints, interpolation |-> interpolation]

\* the header fields of a TAB1 record, decoded
Tab1Header(line) ==
    [C1 |-> float_endf(Slice(line, 0, 11)), C2 |-> float_endf(Slice(line, 11, 22)),
     L1 |-> int_endf(Slice(line, 22, 33)), L2 |-> int_endf(Slice(line, 33, 44)),
     n_regions |-> int_endf(Slice(line, 44, 55)),
     n_pairs |-> int_endf(Slice(line, 55, 66))]

\* get_tab1_record after its lines of regions, reg
Tab1AfterRegions(lines, f, reg) ==
    IF reg.exc # "none" THEN Raised(reg.exc, reg.pos, reg.missing)
    ELSE IF f.n_pairs.val < 0 THEN Raised("ValueError", reg.pos, reg.missing)
    ELSE The({ Returned(<<<<f.C1, f.C2, f.L1.val, f.L2.val>>,
                          Tabulated1D(xy.x, xy.y, Given(reg.breakpoints),
                                      Given(reg.interpolation))>>,
                        xy.pos, xy.missing)
               : xy \in {Tab1Pairs(lines, f.n_pairs.val, 0,
                                   [pos |-> reg.pos, missing |-> reg.missing,
                                    x |-> <<>>, y |-> <<>>])} })

get_tab1_record(lines, p) ==
    The({ The({ IF ~(f.L1.ok /\ f.L2.ok /\ f.n_regions.ok /\ f.n_pairs.ok)
                       \/ f.n_regions.val < 0
                THEN Raised("ValueError", r.pos, r.eof)
                ELSE The({ Tab1AfterRegions(lines, f, reg)
                           : reg \in {Tab1Regions(lines, f.n_regions.val, 0,
                                          [pos |-> r.pos, missing |-> r.eof,
                                           exc |-> "none", breakpoints |-> <<>>,
                                           interpolation |-> <<>>])} })
                : f \in {Tab1Header(r.line)} })
          : r \in {FileReadline(lines, p)} })

RECURSIVE Tab2Regions(_, _, _, _)
\* get_tab2_record's loop over the lines of (NBT, INT) pairs: int(), not int_endf()
Tab2Regions(lines, n_regions, i, st0) ==
    LET Turn(st) ==
            IF st.exc # "none" \/ i >= ((n_regions - 1) \div 3) + 1 THEN st
            ELSE LET r == FileReadline(lines, st.pos)
                     to_read == Min(3, n_regions - Len(st.breakpoints))
                     nbt == [j \in 1..to_read |-> PyInt(Slice(r.line, 22 * (j - 1), 22 * (j - 1) + 11))]
                     law == [j \in 1..to_read |-> PyInt(Slice(r.line, 22 * (j - 1) + 11, 22 * j))]
                     ok == \A j \in 1..to_read : nbt[j].ok /\ law[j].ok
                 IN  Tab2Regions(lines, n_regions, i + 1,
                         [pos |-> r.pos, missing |-> st.missing + r.eof,
                          exc |-> IF ok THEN "none" ELSE "ValueError",
                          breakpoints |-> st.breakpoints \o [j \in 1..to_read |-> nbt[j].val],
                          interpolation |-> st.interpolation \o [j \in 1..to_read |-> law[j].val]])
    IN  The({ Turn(s) : s \in {st0} })

\* n_regions is params[4]; np.zeros(n_regions) raises for a negative count
get_tab2_record(lines, p) ==
    The({ IF params.exc # "none" THEN params
          ELSE IF params.val[5] < 0
          THEN Raised("ValueError", params.pos, params.missing)
          ELSE The({ IF reg.exc # "none" THEN Raised(reg.exc, reg.pos, reg.missing)
                     ELSE Returned(<<params.val,
                                     Tabulated2D(reg.breakpoints, reg.interpolation)>>,
                                   reg.pos, reg.missing)
                     : reg \in {Tab2Regions(lines, params.val[5], 0,
                                    [pos |-> params.pos, missing |-> params.missing,
                                     exc |-> "none", breakpoints |-> <<>>,
                                     interpolation |-> <<>>])} })
          : params \in {get_cont_record(lines, p, FALSE)} })

\* a + b and -a on floats
FloatAdd(a, b) ==
    LET e == Min(a.e, b.e)
    IN  IF a.m = 0 THEN b
        ELSE IF b.m = 0 THEN a
        ELSE Float(a.m * Pow10(a.e - e) + b.m * Pow10(b.e - e), e)

FloatNeg(a) == Float(0 - a.m, a.e)

\* np.identity(n), as a function of (row, column), both from 0
Identity(n) ==
    [ij \in (0..(n - 1)) \X (0..(n - 1)) |-> IF ij[1] = ij[2] THEN Float(1, 0) ELSE Float(0, 0)]

\* an index of an axis of length n: a negative one counts from the end
InAxis(k, n) == k >= 0 - n /\ k < n

AxisIndex(k, n) == IF k < 0 THEN k + n ELSE k

NROW_RULES == (2 :> 18) @@ (3 :> 12) @@ (4 :> 11) @@ (5 :> 9) @@ (6 :> 8)

RECURSIVE IntgElements(_, _, _, _)
\* get_intg_record's loop over the packed entries of one line, from entry j:
\* c is [ndigit, npar, nrow, ii, jj]; st holds the matrix and the exception
\* met.  Every entry that is not zero is stored at corr[ii, jj].
IntgElements(line, c, j, st0) ==
    LET Turn(st) ==
            IF st.exc # "none" \/ j >= c.nrow \/ c.jj + j >= c.ii THEN st
            ELSE LET element == int_endf(Slice(line, 11 + (c.ndigit + 1) * j,
                                               11 + (c.ndigit + 1) * (j + 1)))
                     at == <<AxisIndex(c.ii, c.npar), AxisIndex(c.jj, c.npar)>>
                     half == IF element.val > 0 THEN 1 ELSE 0 - 1
                 IN  IF ~element.ok THEN [st EXCEPT !.exc = "ValueError"]
                     ELSE IF element.val = 0 THEN IntgElements(line, c, j + 1, st)
                     ELSE IF ~(InAxis(c.ii, c.npar) /\ InAxis(c.jj, c.npar))
                     THEN [st EXCEPT !.exc = "IndexError"]
                     ELSE IntgElements(line, c, j + 1,
                             [st EXCEPT !.corr[at] = Float((2 * element.val + half) * 5,
                                                           0 - (c.ndigit + 1))])
    IN  The({ Turn(s) : s \in {st0} })

RECURSIVE IntgLines(_, _, _, _, _)
\* get_intg_record's loop over its nlines lines, from line i
IntgLines(lines, items, nrow, i, st0) ==
    LET Turn(st) ==
            IF st.exc # "none" \/ i >= items[5] THEN st
            ELSE LET r == FileReadline(lines, st.pos)
                     ii == int_endf(Slice(r.line, 0, 5))
                     jj == int_endf(Slice(r.line, 5, 10))
                     here == [st EXCEPT !.pos = r.pos, !.missing = @ + r.eof]
                 IN  IF ~ii.ok \/ ~jj.ok THEN [here EXCEPT !.exc = "ValueError"]
                     ELSE IntgLines(lines, items, nrow, i + 1,
                             IntgElements(r.line,
                                 [ndigit |-> items[3], npar |-> items[4], nrow |-> nrow,
                                  ii |-> ii.val - 1, jj |-> jj.val - 1], 0, here))
    IN  The({ Turn(s) : s \in {st0} })

\* corr + corr.T - np.diag(corr.diagonal())
Symmetrize(corr) ==
    [ij \in DOMAIN corr |->
        IF ij[1] = ij[2] THEN FloatAdd(FloatAdd(corr[ij], corr[ij]), FloatNeg(corr[ij]))
        ELSE FloatAdd(corr[ij], corr[<<ij[2], ij[1]>>])]

get_intg_record(lines, p) ==
    LET items == get_cont_record(lines, p, FALSE)
        ndigit == items.val[3]
        npar == items.val[4]
        st == IntgLines(lines, items.val, NROW_RULES[ndigit], 0,
                  [pos |-> items.pos, missing |-> items.missing, exc |-> "none",
                   corr |-> Identity(npar)])
    IN  IF items.exc # "none" THEN items
        ELSE IF ndigit \notin 2..6 THEN Raised("KeyError", items.pos, items.missing)
        ELSE IF npar < 0 THEN Raised("ValueError", items.pos, items.missing)
        ELSE IF st.exc # "none" THEN Raised(st.exc, st.pos, st.missing)
        ELSE Returned([kind |-> "ndarray", n |-> npar, at |-> Symmetrize(st.corr)],
                      st.pos, st.missing)

RECURSIVE TextRecords(_, _, _)
\* [get_text_record(file_obj) for i in range(NWD)], from its turn i
TextRecords(lines, NWD, st0) ==
    LET Turn(st) ==
            IF Len(st.text) >= NWD THEN st
            ELSE LET t == get_text_record(lines, st.pos)
                 IN  TextRecords(lines, NWD,
                         [pos |-> t.pos, missing |-> st.missing + t.missing,
                          text |-> Append(st.text, t.val)])
    IN  The({ Turn(s) : s \in {st0} })

RECURSIVE SectionList(_, _, _)
\* the loop over the NXC directory records
SectionList(lines, NXC, st0) ==
    LET Turn(st) ==
            IF st.exc # "none" \/ Len(st.list) >= NXC THEN st
            ELSE LET c == get_cont_record(lines, st.pos, TRUE)
                 IN  SectionList(lines, NXC,
                         [pos |-> c.pos, missing |-> st.missing + c.missing, exc |-> c.exc,
                          list |-> IF c.exc = "none" THEN Append(st.list, SubSeq(c.val, 3, 6))
                                   ELSE st.list])
    IN  The({ Turn(s) : s \in {st0} })

RECURSIVE ContRecords(_, _, _)
\* n calls of get_cont_record one after the other, the first exception ending them
ContRecords(lines, n, st0) ==
    LET Turn(st) ==
            IF st.exc # "none" \/ Len(st.list) >= n THEN st
            ELSE LET c == get_cont_record(lines, st.pos, FALSE)
                 IN  ContRecords(lines, n,
                         [pos |-> c.pos, missing |-> st.missing + c.missing, exc |-> c.exc,
                          list |-> IF c.exc = "none" THEN Append(st.list, c.val) ELSE st.list])
    IN  The({ Turn(s) : s \in {st0} })

\* the text records and the directory of MF=1, MT=451, after its control
\* records c: NWD is c.list[3][5], NXC is c.list[3][6]
DescriptionAndDirectory(lines, head, c) ==
    LET t == TextRecords(lines, c.list[3][5],
                 [pos |-> c.pos, missing |-> c.missing, text |-> <<>>])
        d == SectionList(lines, c.list[3][6],
                 [pos |-> t.pos, missing |-> t.missing, exc |-> "none", list |-> <<>>])
    IN  IF d.exc # "none" THEN Raised(d.exc, d.pos, d.missing)
        ELSE Returned([kind |-> "dict", head |-> head, cont |-> c.list,
                       described |-> Len(t.text) >= 5, text |-> t.text,
                       section_list |-> d.list],
                      d.pos, d.missing)

\* parse_mf1_mt451 of mf1.py: HEAD, three CONT, NWD text records, NXC directory
\* records
parse_mf1_mt451(lines, p) ==
    LET h == get_head_record(lines, p)
        c == ContRecords(lines, 3,
                 [pos |-> h.pos, missing |-> h.missing, exc |-> h.exc, list |-> <<>>])
    IN  IF c.exc # "none" THEN Raised(c.exc, c.pos, c.missing)
        ELSE DescriptionAndDirectory(lines, h.val, c)

---------------------------------------------------------------------------
(* The readers on their own: one stream, one call of one reader on it *)

MaxReaderLines == 5     \* lines of a stream handed to a reader

Blanks(n) == [i \in 1..n |-> " "]

\* s right-justified in n columns
RJust(s, n) == Blanks(n - Len(s)) \o s

\* columns [66, 80) of the modelled lines: MAT, MF, MT and the line number
Control == <<" ", "1", "2", "5", " ", "1", "4", "5", "1", " ", " ", " ", " ", "1">>

\* a line of six 11-column fields
Record(f1, f2, f3, f4, f5, f6) ==
    RJust(f1, 11) \o RJust(f2, 11) \o RJust(f3, 11) \o RJust(f4, 11) \o RJust(f5, 11)
        \o RJust(f6, 11) \o Control

\* 1.5+2, 2.0, 2, 2, 2, 0: a header asking for two items, two regions and no
\* pairs, or two text records and no directory
LineCounts == Record(<<"1", ".", "5", "+", "2">>, <<"2", ".", "0">>, <<"2">>, <<"2">>, <<"2">>, <<"0">>)

\* six fields holding 1
LineOnes == Record(<<"1">>, <<"1">>, <<"1">>, <<"1">>, <<"1">>, <<"1">>)

\* 66 blank columns
LineBlank == Record(<<>>, <<>>, <<>>, <<>>, <<>>, <<>>)

\* a line of an INTG record for NDIGIT = 2: II = 2, JJ = 1 and the entry 12
LinePacked ==
    RJust(<<"2">>, 5) \o RJust(<<"1">>, 5) \o <<" ">> \o RJust(<<"1", "2">>, 3) \o Blanks(52)
        \o Control

\* six fields holding 1, 2, 3, 4, 5, 6: as a header it asks for five items, or
\* five regions and six pairs
LineRamp == Record(<<"1">>, <<"2">>, <<"3">>, <<"4">>, <<"5">>, <<"6">>)

\* a header asking for seven items, or seven regions and one pair
LineSeven == Record(<<"1">>, <<"1">>, <<"1">>, <<"1">>, <<"7">>, <<"1">>)

\* a header of an INTG record: NDIGIT = 2, NPAR = 3, NLINES = 2
LineThree == Record(<<>>, <<>>, <<"2">>, <<"3">>, <<"2">>, <<>>)

\* a line of an INTG record for NDIGIT = 2: II = 3, JJ = 1 and the entries 12
\* and -21
LineTwoPacked ==
    RJust(<<"3">>, 5) \o RJust(<<"1">>, 5) \o <<" ">> \o RJust(<<"1", "2">>, 3)
        \o <<"-", "2", "1">> \o Blanks(49) \o Control

\* a line of an INTG record for NDIGIT = 2: II = 3, JJ = 2 and the entry -1
LineLastPacked ==
    RJust(<<"3">>, 5) \o RJust(<<"2">>, 5) \o <<" ">> \o RJust(<<"-", "1">>, 3) \o Blanks(52)
        \o Control

\* INTG records of three parameters and up to two lines
IntgTapes ==
    { <<LineThree>> \o t : t \in {<<>>} \cup
          { <<l>> : l \in {LinePacked, LineTwoPacked, LineLastPacked} } \cup
          { <<l, k>> : l, k \in {LinePacked, LineTwoPacked, LineLastPacked} } }

ReaderLines == {LineCounts, LineOnes, LineBlank, LinePacked, LineRamp}

RECURSIVE LinesUpTo(_)
LinesUpTo(n) ==
    IF n = 0 THEN {<<>>}
    ELSE LET S == LinesUpTo(n - 1)
         IN  S \cup { Append(x, l) : x \in S, l \in ReaderLines }

InitReaders ==
    /\ tape \in LinesUpTo(MaxReaderLines)
                \cup { <<LineSeven>> \o t : t \in LinesUpTo(MaxReaderLines - 1) }
                \cup IntgTapes
    /\ pos = 0
    /\ phase = "call"
    /\ out = <<>>
    /\ arg = <<>>
    /\ mat = NoMaterial("none", 0)
    /\ materials = <<>>
    /\ ret = NoRet
    /\ nset = 0

\* One call of one reader on the stream; the stream is left where the reader
\* left it.
CallGetTextRecord ==
    /\ phase = "call"
    /\ out' = get_text_record(tape, pos)
    /\ pos' = out'.pos
    /\ phase' = "get_text_record"
    /\ UNCHANGED <<arg, tape, mat, materials, ret, nset>>

CallGetContRecord ==
    /\ phase = "call"
    /\ out' = get_cont_record(tape, pos, FALSE)
    /\ pos' = out'.pos
    /\ phase' = "get_cont_record"
    /\ UNCHANGED <<arg, tape, mat, materials, ret, nset>>

CallGetHeadRecord ==
    /\ phase = "call"
    /\ out' = get_head_record(tape, pos)
    /\ pos' = out'.pos
    /\ phase' = "get_head_record"
    /\ UNCHANGED <<arg, tape, mat, materials, ret, nset>>

CallGetListRecord ==
    /\ phase = "call"
    /\ out' = get_list_record(tape, pos)
    /\ pos' = out'.pos
    /\ phase' = "get_list_record"
    /\ UNCHANGED <<arg, tape, mat, materials, ret, nset>>

CallGetTab1Record ==
    /\ phase = "call"
    /\ out' = get_tab1_record(tape, pos)
    /\ pos' = out'.pos
    /\ phase' = "get_tab1_record"
    /\ UNCHANGED <<arg, tape, mat, materials, ret, nset>>

CallGetTab2Record ==
    /\ phase = "call"
    /\ out' = get_tab2_record(tape, pos)
    /\ pos' = out'.pos
    /\ phase' = "get_tab2_record"
    /\ UNCHANGED <<arg, tape, mat, materials, ret, nset>>

CallGetIntgRecord ==
    /\ phase = "call"
    /\ out' = get_intg_record(tape, pos)
    /\ pos' = out'.pos
    /\ phase' = "get_intg_record"
    /\ UNCHANGED <<arg, tape, mat, materials, ret, nset>>

CallParseMF1MT451 ==
    /\ phase = "call"
    /\ out' = parse_mf1_mt451(tape, pos)
    /\ pos' = out'.pos
    /\ phase' = "parse_mf1_mt451"
    /\ UNCHANGED <<arg, tape, mat, materials, ret, nset>>

NextReaders ==
    \/ CallGetTextRecord
    \/ CallGetContRecord
    \/ CallGetHeadRecord
    \/ CallGetListRecord
    \/ CallGetTab1Record
    \/ CallGetTab2Record
    \/ CallGetIntgRecord
    \/ CallParseMF1MT451

SpecReaders == InitReaders /\ [][NextReaders]_vars

Readers ==
    {"get_text_record", "get_cont_record", "get_head_record", "get_list_record",
     "get_tab1_record", "get_tab2_record", "get_intg_record", "parse_mf1_mt451"}

\* C4 as stated: a reader that met the end of the stream while it read its
\* record has raised; none returns a result when a line it asked for was missing.
C4_MissingLineRaises ==
    (phase \in Readers /\ out.missing > 0) => out.exc # "none"

\* what C4 says holds of the readers that decode an integer field of every
\* line they read: get_cont_record, get_head_record, get_tab2_record and
\* get_intg_record
MissingLineRaisesInt ==
    (/\ phase \in {"get_cont_record", "get_head_record", "get_tab2_record", "get_intg_record"}
     /\ out.missing > 0)
        => out.exc = "ValueError"

\* What the claims say of the records, read off the lines of the stream.

\* ceil(n / d)
CeilDiv(n, d) == (n + d - 1) \div d

\* the k-th 11-column field of a line, k from 0: columns [11k, 11k + 11)
Field(line, k) == Slice(line, 11 * k, 11 * k + 11)

\* the four integer fields of a header line decode
HeaderDecodes(line) == \A k \in 2..5 : int_endf(Field(line, k)).ok

\* the six fields of a header line: two floats, four integers
Header(line) ==
    <<float_endf(Field(line, 0)), float_endf(Field(line, 1)),
      int_endf(Field(line, 2)).val, int_endf(Field(line, 3)).val,
      int_endf(Field(line, 4)).val, int_endf(Field(line, 5)).val>>

\* the stream holds a LIST record: a header that decodes and its data lines
HoldsList ==
    /\ Len(tape) >= 1 /\ HeaderDecodes(tape[1])
    /\ Header(tape[1])[5] >= 0
    /\ Len(tape) >= 1 + CeilDiv(Header(tape[1])[5], 6)

\* C13: on a stream that holds a LIST record, get_list_record returns after
\* 1 + ceil(NPL/6) lines, with the header and an array of NPL values, value
\* 6i + j being the float in columns [11j, 11j + 11) of data line i.
C13_ListAsStated ==
    (phase = "get_list_record" /\ HoldsList) =>
        LET NPL == Header(tape[1])[5]
        IN  /\ out.exc = "none"
            /\ out.pos = 1 + CeilDiv(NPL, 6)
            /\ out.val[1] = Header(tape[1])
            /\ Len(out.val[2]) = NPL
            /\ \A i \in 0..(CeilDiv(NPL, 6) - 1), j \in 0..5 :
                  6 * i + j < NPL =>
                      out.val[2][6 * i + j + 1] = float_endf(Field(tape[i + 2], j))

\* C13 witness: a LIST record of seven items was read from three lines, the
\* second data line giving one item.
C13_Witness ==
    /\ phase = "get_list_record"
    /\ HoldsList
    /\ Header(tape[1])[5] = 7
    /\ tape[2] = LineRamp
    /\ out.pos = 3
    /\ Len(out.val[2]) = 7

\* field number w (0 or 1) of pair number m of a block of pair lines that
\* follows line number `first` of the stream: three pairs to a line
PairField(first, m, w) == Field(tape[first + (m \div 3) + 1], 2 * (m % 3) + w)

\* the region table after the header decodes: n_regions (NBT, INT) pairs
RegionsDecode(n_regions) ==
    \A m \in 0..(n_regions - 1), w \in 0..1 : int_endf(PairField(1, m, w)).ok

\* the stream holds a TAB1 record: a header that decodes, its region lines,
\* which decode, and its pair lines
HoldsTab1 ==
    /\ Len(tape) >= 1 /\ HeaderDecodes(tape[1])
    /\ Header(tape[1])[5] >= 0 /\ Header(tape[1])[6] >= 0
    /\ Len(tape) >= 1 + CeilDiv(Header(tape[1])[5], 3) + CeilDiv(Header(tape[1])[6], 3)
    /\ RegionsDecode(Header(tape[1])[5])

\* C14: on a stream that holds a TAB1 record, get_tab1_record returns after
\* 1 + ceil(n_regions/3) + ceil(n_pairs/3) lines, with the four leading header
\* fields and a Tabulated1D of n_regions (NBT, INT) pairs and n_pairs (x, y)
\* pairs, pair m of each kind being the two fields at position m mod 3 of line
\* m div 3 of its block.
C14_Tab1AsStated ==
    (phase = "get_tab1_record" /\ HoldsTab1) =>
        LET n_regions == Header(tape[1])[5]
            n_pairs == Header(tape[1])[6]
            pairs == 1 + CeilDiv(n_regions, 3)
        IN  /\ out.exc = "none"
            /\ out.pos = pairs + CeilDiv(n_pairs, 3)
            /\ out.val[1] = SubSeq(Header(tape[1]), 1, 4)
            /\ out.val[2].kind = "Tabulated1D"
            /\ Len(out.val[2].breakpoints) = n_regions
            /\ Len(out.val[2].interpolation) = n_regions
            /\ Len(out.val[2].x) = n_pairs
            /\ Len(out.val[2].y) = n_pairs
            /\ \A m \in 0..(n_regions - 1) :
                  /\ out.val[2].breakpoints[m + 1] = int_endf(PairField(1, m, 0)).val
                  /\ out.val[2].interpolation[m + 1] = int_endf(PairField(1, m, 1)).val
            /\ \A m \in 0..(n_pairs - 1) :
                  /\ out.val[2].x[m + 1] = float_endf(PairField(pairs, m, 0))
                  /\ out.val[2].y[m + 1] = float_endf(PairField(pairs, m, 1))

\* C14 witness: a TAB1 record of five regions and six pairs was read from five
\* lines, three pairs from a line of six different fields.
C14_Witness ==
    /\ phase = "get_tab1_record"
    /\ HoldsTab1
    /\ Header(tape[1])[5] = 5
    /\ Header(tape[1])[6] = 6
    /\ tape[4] = LineRamp
    /\ out.pos = 5
    /\ Len(out.val[2].x) = 6
    /\ Len(out.val[2].breakpoints) = 5

\* get_tab1_record on the stream that the reader under call was handed
Tab1OfTape == get_tab1_record(tape, 0)

\* C15: where get_tab1_record succeeds on the header and the region lines,
\* blank NBT and INT fields included, get_tab2_record returns the same
\* breakpoints and laws after 1 + ceil(n_regions/3) lines.
C15_Tab2AsTab1 ==
    (phase = "get_tab2_record" /\ Tab1OfTape.exc = "none") =>
        /\ out.exc = "none"
        /\ out.val[2].breakpoints = Tab1OfTape.val[2].breakpoints
        /\ out.val[2].interpolation = Tab1OfTape.val[2].interpolation
        /\ out.pos = 1 + CeilDiv(Header(tape[1])[5], 3)

\* some NBT or INT field of the region table is blank
BlankRegionField(n_regions) ==
    \E m \in 0..(n_regions - 1), w \in 0..1 : IsSpace(PairField(1, m, w))

\* get_tab2_record agrees with get_tab1_record where no field of the region
\* table is blank, and raises ValueError where one is.
Tab2AsTab1Written ==
    (phase = "get_tab2_record" /\ Tab1OfTape.exc = "none") =>
        IF BlankRegionField(Header(tape[1])[5])
        THEN out.exc = "ValueError"
        ELSE /\ out.exc = "none"
             /\ out.val[2].breakpoints = Tab1OfTape.val[2].breakpoints
             /\ out.val[2].interpolation = Tab1OfTape.val[2].interpolation
             /\ out.pos = 1 + CeilDiv(Header(tape[1])[5], 3)

\* a TAB2 record of five regions was read from three lines
Tab2Read ==
    /\ phase = "get_tab2_record"
    /\ out.exc = "none"
    /\ Header(tape[1])[5] = 5
    /\ tape[2] = LineRamp
    /\ out.pos = 3

\* What the claim says of an INTG record whose header is line 1 of the stream.

\* II and JJ of line number i of the record, i from 1
RowOf(i) == int_endf(Slice(tape[i + 1], 0, 5)).val

ColumnOf(i) == int_endf(Slice(tape[i + 1], 5, 10)).val

\* packed entry number j of line number i, j from 0, NDIGIT + 1 columns wide
PackedEntry(i, j, ndigit) ==
    int_endf(Slice(tape[i + 1], 11 + (ndigit + 1) * j, 11 + (ndigit + 1) * (j + 1)))

\* (e + 0.5)/10^NDIGIT for e > 0, (e - 0.5)/10^NDIGIT for e < 0
EntryValue(e, ndigit) ==
    IF e > 0 THEN Float(10 * e + 5, 0 - (ndigit + 1)) ELSE Float(10 * e - 5, 0 - (ndigit + 1))

\* the values that the lines of the record give for the element in row r and
\* column c, both from 1, r > c
NamedValues(r, c, ndigit, nlines) ==
    { EntryValue(PackedEntry(i, c - ColumnOf(i), ndigit).val, ndigit) :
        i \in { k \in 1..nlines :
                  /\ RowOf(k) = r
                  /\ ColumnOf(k) <= c
                  /\ c - ColumnOf(k) < NROW_RULES[ndigit]
                  /\ PackedEntry(k, c - ColumnOf(k), ndigit).ok
                  /\ PackedEntry(k, c - ColumnOf(k), ndigit).val # 0 } }

\* the stream holds an INTG record: its header, and NLINES lines whose II and
\* JJ are rows and columns of the matrix
HoldsIntg ==
    /\ Len(tape) >= 1 /\ HeaderDecodes(tape[1])
    /\ Header(tape[1])[3] \in DOMAIN NROW_RULES
    /\ Header(tape[1])[4] >= 1 /\ Header(tape[1])[5] >= 0
    /\ Len(tape) >= 1 + Header(tape[1])[5]
    /\ \A i \in 1..Header(tape[1])[5] :
          /\ int_endf(Slice(tape[i + 1], 0, 5)).ok /\ int_endf(Slice(tape[i + 1], 5, 10)).ok
          /\ RowOf(i) \in 1..Header(tape[1])[4]
          /\ ColumnOf(i) \in 1..Header(tape[1])[4]
          /\ \A j \in 0..(NROW_RULES[Header(tape[1])[3]] - 1) :
                ColumnOf(i) + j < RowOf(i) => PackedEntry(i, j, Header(tape[1])[3]).ok

\* the matrix is symmetric with 1 on its diagonal, and its element in row r
\* and column c < r is a value that the lines give for it, 0 if they give none
MatrixAsStated(m, ndigit, npar, nlines) ==
    /\ m.kind = "ndarray" /\ m.n = npar
    /\ \A r \in 1..npar : m.at[<<r - 1, r - 1>>] = Float(1, 0)
    /\ \A r \in 1..npar, c \in 1..npar :
          c < r =>
              /\ m.at[<<c - 1, r - 1>>] = m.at[<<r - 1, c - 1>>]
              /\ IF NamedValues(r, c, ndigit, nlines) = {}
                 THEN m.at[<<r - 1, c - 1>>] = Float(0, 0)
                 ELSE m.at[<<r - 1, c - 1>>] \in NamedValues(r, c, ndigit, nlines)

\* C16: on a stream that holds an INTG record, get_intg_record returns the
\* NPAR x NPAR symmetric matrix with unit diagonal in which packed entry j of a
\* line with row II and starting column JJ gives the elements (II, JJ + j) and
\* (JJ + j, II), every other element being 0.
C16_IntgAsStated ==
    (phase = "get_intg_record" /\ HoldsIntg) =>
        /\ out.exc = "none"
        /\ MatrixAsStated(out.val, Header(tape[1])[3], Header(tape[1])[4], Header(tape[1])[5])

\* a line of the record has more than one packed entry before its diagonal
SeveralEntries ==
    \E i \in 1..Header(tape[1])[5] : ColumnOf(i) + 1 < RowOf(i)

\* get_intg_record returns the matrix as stated for a record none of whose
\* lines has more than one packed entry before its diagonal
IntgOfSingleEntries ==
    (phase = "get_intg_record" /\ HoldsIntg /\ ~SeveralEntries) =>
        /\ out.exc = "none"
        /\ MatrixAsStated(out.val, Header(tape[1])[3], Header(tape[1])[4], Header(tape[1])[5])

\* an INTG record of two lines, one entry each, was read
IntgRead ==
    /\ phase = "get_intg_record"
    /\ HoldsIntg /\ ~SeveralEntries
    /\ tape = <<LineThree, LinePacked, LineLastPacked>>
    /\ out.val.at[<<1, 0>>] = Float(125, 0 - 3)
    /\ out.val.at[<<1, 2>>] = Float(0 - 15, 0 - 3)

---------------------------------------------------------------------------
(* int_endf on its own: one field, the integer decoded from it or ValueError *)

MaxIntLen == 5      \* length of the integer fields

IntChars == {" ", "+", "-", "0", "1", "2", "3"}

RECURSIVE IntFieldsUpTo(_)
IntFieldsUpTo(n) ==
    IF n = 0 THEN {<<>>}
    ELSE LET S == IntFieldsUpTo(n - 1)
         IN  S \cup { Append(x, c) : x \in S, c \in IntChars }

InitInt ==
    /\ arg \in IntFieldsUpTo(MaxIntLen)
    /\ out = <<>>
    /\ phase = "call"
    /\ tape = <<>>
    /\ pos = 0
    /\ mat = NoMaterial("none", 0)
    /\ materials = <<>>
    /\ ret = NoRet
    /\ nset = 0

CallIntEndf ==
    /\ phase = "call"
    /\ out' = int_endf(arg)
    /\ phase' = "int_endf"
    /\ UNCHANGED <<arg, tape, pos, mat, materials, ret, nset>>

NextInt == CallIntEndf

SpecInt == InitInt /\ [][NextInt]_vars

\* the field is blanks, then g, then blanks
Surrounded(f, g) ==
    \E a \in 0..Len(f) :
        /\ a + Len(g) <= Len(f)
        /\ \A k \in 1..Len(f) :
              IF k > a /\ k <= a + Len(g) THEN f[k] = g[k - a] ELSE f[k] = " "

\* g is an integer as written: digits, maybe after one sign
IsInteger(g) ==
    \/ g # <<>> /\ AllDigits(g)
    \/ IsSignedDigits(g)

IntegerWritten(g) ==
    IF Head(g) = "-" THEN 0 - DigitsValue(Tail(g), 0)
    ELSE IF Head(g) = "+" THEN DigitsValue(Tail(g), 0)
    ELSE DigitsValue(g, 0)

\* a field in which an integer is written, with blanks around it or none,
\* gives that integer
ReadsIntegerWritten ==
    LET g == SelectSeq(arg, NotBlank)
    IN  (IsInteger(g) /\ Surrounded(arg, g)) => out = [ok |-> TRUE, val |-> IntegerWritten(g)]

\* C12 as stated: int_endf gives 0 for every field without a non-blank
\* character, the empty field among them, and the integer written in the
\* field otherwise.
C12_ZeroForNoNonBlank ==
    phase = "int_endf" =>
        /\ SelectSeq(arg, NotBlank) = <<>> => out = [ok |-> TRUE, val |-> 0]
        /\ ReadsIntegerWritten

\* C12 (amended): int_endf gives 0 for every field of one or more blanks,
\* raises ValueError for the empty field, and gives the integer written in
\* the field otherwise.
C12_ZeroForBlanks ==
    phase = "int_endf" =>
        /\ (arg # <<>> /\ SelectSeq(arg, NotBlank) = <<>>) => out = [ok |-> TRUE, val |-> 0]
        /\ arg = <<>> => ~out.ok
        /\ ReadsIntegerWritten

\* C12 witness: '  123' was decoded to 123.
C12_Witness ==
    /\ phase = "int_endf"
    /\ arg = <<" ", " ", "1", "2", "3">>
    /\ out = [ok |-> TRUE, val |-> 123]

---------------------------------------------------------------------------
(* function.py: Tabulated1D.  Its numbers are floats kept exactly, as in   *)
(* the readers, and three more outcomes of float arithmetic: nan, an       *)
(* infinity with its sign, and `nonzero`, a finite value other than zero   *)
(* that this arithmetic does not work out (a logarithm of an argument      *)
(* other than 1, an exponential of an argument other than 0, a quotient    *)
(* with no short decimal expansion).  `finite` is a finite value, zero or  *)
(* not, that is not worked out; `unknown` is a value of which nothing is   *)
(* worked out, and every operation on it gives unknown.                    *)

NaN == [kind |-> "nan"]

Inf(s) == [kind |-> "inf", s |-> s]

NonZero == [kind |-> "nonzero"]

Finite == [kind |-> "finite"]

Unknown == [kind |-> "unknown"]

Sgn(n) == IF n > 0 THEN 1 ELSE IF n < 0 THEN 0 - 1 ELSE 0

Abs(n) == IF n < 0 THEN 0 - n ELSE n

RECURSIVE NumDigits(_)
\* the number of decimal digits of n > 0
NumDigits(n) == IF n < 10 THEN 1 ELSE 1 + NumDigits(n \div 10)

\* the position of the leading digit of a float other than zero
Order(a) == NumDigits(Abs(a.m)) + a.e

\* a < b for floats above zero
PosLess(a, b) ==
    IF Order(a) # Order(b) THEN Order(a) < Order(b)
    ELSE a.m * Pow10(a.e - Min(a.e, b.e)) < b.m * Pow10(b.e - Min(a.e, b.e))

\* a < b for floats
FloatLess(a, b) ==
    IF a.m < 0 /\ b.m < 0 THEN PosLess(FloatNeg(b), FloatNeg(a))
    ELSE IF a.m <= 0 \/ b.m <= 0 THEN Sgn(a.m) < Sgn(b.m)
    ELSE PosLess(a, b)

\* a <= b; false when either is nan
LessEq(a, b) == a.kind = "float" /\ b.kind = "float" /\ ~FloatLess(b, a)

FloatAbs(a) == Float(Abs(a.m), a.e)

FloatMul(a, b) == Float(a.m * b.m, a.e + b.e)

\* the digits after which a quotient is given up as not worked out
MaxShift == 3

\* a / b for floats, b other than zero: exact where b divides a * 10^k for a
\* k up to MaxShift
FloatDiv(a, b) ==
    LET ks == { k \in 0..MaxShift : (a.m * Pow10(k)) % Abs(b.m) = 0 }
        k == CHOOSE i \in ks : \A j \in ks : i <= j
    IN  IF ks = {} THEN NonZero
        ELSE Float(Sgn(b.m) * ((a.m * Pow10(k)) \div Abs(b.m)), a.e - k - b.e)

Kinds(a, b) == {a.kind, b.kind}

Add(a, b) ==
    IF "nan" \in Kinds(a, b) THEN NaN
    ELSE IF "unknown" \in Kinds(a, b) THEN Unknown
    ELSE IF a.kind = "inf" /\ b.kind = "inf" THEN (IF a.s = b.s THEN a ELSE NaN)
    ELSE IF a.kind = "inf" THEN a
    ELSE IF b.kind = "inf" THEN b
    ELSE IF b = Float(0, 0) THEN a
    ELSE IF a = Float(0, 0) THEN b
    ELSE IF Kinds(a, b) # {"float"} THEN Finite
    ELSE FloatAdd(a, b)

Neg(a) ==
    IF a.kind = "float" THEN FloatNeg(a)
    ELSE IF a.kind = "inf" THEN Inf(0 - a.s)
    ELSE a

Sub(a, b) == Add(a, Neg(b))

\* the sign of a float or an infinity
SignOf(a) == IF a.kind = "inf" THEN a.s ELSE Sgn(a.m)

Mul(a, b) ==
    IF "nan" \in Kinds(a, b) THEN NaN
    ELSE IF "unknown" \in Kinds(a, b) THEN Unknown
    ELSE IF "inf" \in Kinds(a, b)
    THEN IF Kinds(a, b) \cap {"nonzero", "finite"} # {} THEN Unknown
         ELSE IF SignOf(a) * SignOf(b) = 0 THEN NaN
         ELSE Inf(SignOf(a) * SignOf(b))
    ELSE IF a = Float(0, 0) \/ b = Float(0, 0) THEN Float(0, 0)
    ELSE IF "finite" \in Kinds(a, b) THEN Finite
    ELSE IF "nonzero" \in Kinds(a, b) THEN NonZero
    ELSE FloatMul(a, b)

\* a / b of numpy floats: a zero divisor gives an infinity or nan
Div(a, b) ==
    IF "nan" \in Kinds(a, b) THEN NaN
    ELSE IF "unknown" \in Kinds(a, b) \/ b.kind = "finite" THEN Unknown
    ELSE IF b.kind = "inf" THEN (IF a.kind = "inf" THEN NaN ELSE Float(0, 0))
    ELSE IF b = Float(0, 0)
    THEN IF a.kind \in {"nonzero", "finite"} THEN Unknown
         ELSE IF SignOf(a) = 0 THEN NaN
         ELSE Inf(SignOf(a))
    ELSE IF a.kind = "inf"
    THEN (IF b.kind = "nonzero" THEN Unknown ELSE Inf(a.s * Sgn(b.m)))
    ELSE IF a = Float(0, 0) THEN Float(0, 0)
    ELSE IF a.kind = "finite" THEN Finite
    ELSE IF "nonzero" \in Kinds(a, b) THEN NonZero
    ELSE FloatDiv(a, b)

\* np.log: -inf at zero, nan below it
Log(a) ==
    IF a.kind \in {"nan", "unknown"} THEN a
    ELSE IF a.kind = "inf" THEN (IF a.s > 0 THEN a ELSE NaN)
    ELSE IF a.kind \in {"nonzero", "finite"} THEN Unknown
    ELSE IF a.m < 0 THEN NaN
    ELSE IF a.m = 0 THEN Inf(0 - 1)
    ELSE IF a = Float(1, 0) THEN Float(0, 0)
    ELSE NonZero

\* np.exp
Exp(a) ==
    IF a.kind \in {"nan", "unknown"} THEN a
    ELSE IF a.kind = "inf" THEN (IF a.s > 0 THEN a ELSE Float(0, 0))
    ELSE IF a = Float(0, 0) THEN Float(1, 0)
    ELSE NonZero

\* a**b: worked out for the exponents 0, 1 and 2 of a float
Power(a, b) ==
    IF b = Float(0, 0) \/ a = Float(1, 0) THEN Float(1, 0)
    ELSE IF "nan" \in Kinds(a, b) THEN NaN
    ELSE IF a.kind = "float" /\ b = Float(1, 0) THEN a
    ELSE IF a.kind = "float" /\ b = Float(2, 0) THEN FloatMul(a, a)
    ELSE Unknown

\* s[a:b] of a sequence: an index below zero counts from the end, and both
\* are cut to the sequence
Clip(k, n) == IF k < 0 THEN (IF k + n < 0 THEN 0 ELSE k + n) ELSE Min(k, n)

PySlice(s, a, b) ==
    IF Clip(a, Len(s)) >= Clip(b, Len(s)) THEN <<>>
    ELSE SubSeq(s, Clip(a, Len(s)) + 1, Clip(b, Len(s)))

\* s[k] of an array, k from 0
ItemAt(s, k) == s[AxisIndex(k, Len(s)) + 1]

EV_PER_MEV == Float(1, 6)

\* the arrays of from_ace after its two counts are read
AcePairs(xss, first, n_regions, n_pairs, convert_units) ==
    LET at == first + 2 * n_regions + 1
        x == PySlice(xss, at, at + n_pairs)
    IN  Tabulated1D(
            IF convert_units THEN [i \in DOMAIN x |-> FloatMul(x[i], EV_PER_MEV)] ELSE x,
            PySlice(xss, at + n_pairs, at + 2 * n_pairs),
            Given(IF n_regions > 0
                  THEN [i \in DOMAIN PySlice(xss, first, first + n_regions) |->
                           IntOfFloat(PySlice(xss, first, first + n_regions)[i])]
                  ELSE <<n_pairs>>),
            Given(IF n_regions > 0
                  THEN [i \in DOMAIN PySlice(xss, first + n_regions, first + 2 * n_regions) |->
                           IntOfFloat(PySlice(xss, first + n_regions, first + 2 * n_regions)[i])]
                  ELSE <<2>>))

\* Tabulated1D.from_ace, of the XSS array of the table
from_ace(xss, idx, convert_units) ==
    IF ~InAxis(idx, Len(xss)) THEN Raised("IndexError", 0, 0)
    ELSE IF ~InAxis(idx + 1 + 2 * IntOfFloat(ItemAt(xss, idx)), Len(xss))
    THEN Raised("IndexError", 0, 0)
    ELSE Returned(AcePairs(xss, idx + 1, IntOfFloat(ItemAt(xss, idx)),
                           IntOfFloat(ItemAt(xss, idx + 1 + 2 * IntOfFloat(ItemAt(xss, idx)))),
                           convert_units), 0, 0)

\* math.log: ValueError at zero and below it
MathLog(a) ==
    IF a.kind = "float" /\ a.m <= 0 THEN ValueError
    ELSE IF a.kind = "inf" /\ a.s < 0 THEN ValueError
    ELSE Log(a)

\* (x - xi)/(xi1 - xi)
LinearShare(x, xi, xi1) == Div(Sub(x, xi), Sub(xi1, xi))

\* log(x/xi)/log(xi1/xi), or the ValueError of one of the logarithms
LogShare(x, xi, xi1) ==
    IF ValueError = MathLog(Div(x, xi)) \/ ValueError = MathLog(Div(xi1, xi)) THEN ValueError
    ELSE Div(MathLog(Div(x, xi)), MathLog(Div(xi1, xi)))

\* yi*exp(share*log(yi1/yi))
LogLaw(share, yi, yi1) ==
    IF ValueError = share \/ ValueError = MathLog(Div(yi1, yi)) THEN ValueError
    ELSE Mul(yi, Exp(Mul(share, MathLog(Div(yi1, yi)))))

\* yi + share*(yi1 - yi)
LinearLaw(share, yi, yi1) ==
    IF ValueError = share THEN ValueError ELSE Add(yi, Mul(share, Sub(yi1, yi)))

\* the value of law p at x in the bin from (xi, yi) to (xi1, yi1) in the
\* scalar path; None for a law that is none of the five
ScalarLaw(p, x, xi, xi1, yi, yi1) ==
    IF p = 1 THEN yi
    ELSE IF p = 2 THEN LinearLaw(LinearShare(x, xi, xi1), yi, yi1)
    ELSE IF p = 3 THEN LinearLaw(LogShare(x, xi, xi1), yi, yi1)
    ELSE IF p = 4 THEN LogLaw(LinearShare(x, xi, xi1), yi, yi1)
    ELSE IF p = 5 THEN LogLaw(LogShare(x, xi, xi1), yi, yi1)
    ELSE PyNone

\* np.searchsorted(a, v, side='right') of a sorted array: how many of its
\* items are <= v
SearchSortedRight(a, v) == Cardinality({ i \in DOMAIN a : LessEq(a[i], v) })

\* the regions that zip(breakpoints, interpolation) goes through
Zipped(f) == 1..Min(Len(f.breakpoints), Len(f.interpolation))

\* a variant that ends with the law of the last region
LawAt_Last(f, idx) == f.interpolation[Min(Len(f.breakpoints), Len(f.interpolation))]

\* the law p that the loop over the regions ends with: that of the first
\* region whose breakpoint is beyond idx + 1, else that of the last region
LawAt(f, idx) ==
    LET beyond == { k \in Zipped(f) : idx < f.breakpoints[k] - 1 }
    IN  IF beyond = {} THEN f.interpolation[Min(Len(f.breakpoints), Len(f.interpolation))]
        ELSE f.interpolation[CHOOSE k \in beyond : \A j \in beyond : k <= j]

\* _interpolate_scalar between the end points, at the bin idx
ScalarInside(f, x, idx) ==
    IF Zipped(f) = {} THEN Raised("UnboundLocalError", 0, 0)
    ELSE IF ValueError = ScalarLaw(LawAt(f, idx), x, f.x[idx + 1], f.x[idx + 2],
                                   f.y[idx + 1], f.y[idx + 2])
    THEN Raised("ValueError", 0, 0)
    ELSE Returned(ScalarLaw(LawAt(f, idx), x, f.x[idx + 1], f.x[idx + 2],
                            f.y[idx + 1], f.y[idx + 2]), 0, 0)

\* a variant of _interpolate_scalar that clamps at the high end first
interpolate_scalar_HighFirst(f, x) ==
    IF Len(f.x) = 0 THEN Raised("IndexError", 0, 0)
    ELSE IF LessEq(f.x[Len(f.x)], x) THEN Returned(f.y[Len(f.y)], 0, 0)
    ELSE IF LessEq(x, f.x[1]) THEN Returned(f.y[1], 0, 0)
    ELSE ScalarInside(f, x, SearchSortedRight(f.x, x) - 1)

\* Tabulated1D._interpolate_scalar, of a table whose x is sorted and whose y is
\* as long as its x
interpolate_scalar(f, x) ==
    IF Len(f.x) = 0 THEN Raised("IndexError", 0, 0)
    ELSE IF LessEq(x, f.x[1]) THEN Returned(f.y[1], 0, 0)
    ELSE IF LessEq(f.x[Len(f.x)], x) THEN Returned(f.y[Len(f.y)], 0, 0)
    ELSE ScalarInside(f, x, SearchSortedRight(f.x, x) - 1)

\* the tolerances of np.isclose(a, b, atol=1e-14): rtol is left at its default
ATol == Float(1, 0 - 14)

RTol == Float(1, 0 - 5)

\* np.isclose(a, b, atol=1e-14) of floats: |a - b| <= atol + rtol*|b|, worked
\* out as |a - b| - rtol*|b| <= atol
isclose(a, b) == LessEq(Sub(FloatAbs(Sub(a, b)), Mul(RTol, FloatAbs(b))), ATol)

\* np.log(x/xi)/np.log(xi1/xi)
ArrayLogShare(x, xi, xi1) == Div(Log(Div(x, xi)), Log(Div(xi1, xi)))

\* yi*np.exp(share*np.log(yi1/yi))
ArrayLogLaw(share, yi, yi1) == Mul(yi, Exp(Mul(share, Log(Div(yi1, yi)))))

\* the value of law p, one of the five, at x in the bin from (xi, yi) to
\* (xi1, yi1) in the array path
ArrayLaw(p, x, xi, xi1, yi, yi1) ==
    IF p = 1 THEN yi
    ELSE IF p = 2 THEN Add(yi, Mul(LinearShare(x, xi, xi1), Sub(yi1, yi)))
    ELSE IF p = 3 THEN Add(yi, Mul(ArrayLogShare(x, xi, xi1), Sub(yi1, yi)))
    ELSE IF p = 4 THEN ArrayLogLaw(LinearShare(x, xi, xi1), yi, yi1)
    ELSE ArrayLogLaw(ArrayLogShare(x, xi, xi1), yi, yi1)

RECURSIVE CallRegions(_, _, _, _, _)
\* the loop of __call__ over the regions, from region k, for one item x of
\* the array, whose bin is idx: y is the item of the output array so far
CallRegions(f, x, idx, k, y) ==
    IF k >= Len(f.breakpoints) THEN y
    ELSE IF /\ idx >= (IF k > 0 THEN f.breakpoints[k] - 1 ELSE 0)
            /\ idx < f.breakpoints[k + 1] - 1
            /\ f.interpolation[k + 1] \in 1..5
    THEN CallRegions(f, x, idx, k + 1,
             ArrayLaw(f.interpolation[k + 1], x, f.x[idx + 1], f.x[idx + 2],
                      f.y[idx + 1], f.y[idx + 2]))
    ELSE CallRegions(f, x, idx, k + 1, y)

\* the item of the output array for the item x of the array: the two
\* assignments at the end, the second of which is the one that stays
CallItem(f, x) ==
    IF isclose(x, f.x[Len(f.x)]) THEN f.y[Len(f.y)]
    ELSE IF isclose(x, f.x[1]) THEN f.y[1]
    ELSE CallRegions(f, x, SearchSortedRight(f.x, x) - 1, 0, Float(0, 0))

\* Tabulated1D.__call__ on an array of floats, of a table whose x is sorted,
\* whose y is as long as its x and whose regions are as the invariant says
Tabulated1D_call(f, x) ==
    IF Len(f.x) = 0 THEN Raised("IndexError", 0, 0)
    ELSE Returned([i \in DOMAIN x |-> CallItem(f, x[i])], 0, 0)

\* the slope m and the item of partial_sum of a lin-lin panel
LinLinPanel(m, x0, x1, y0) ==
    Add(Mul(Sub(y0, Mul(m, x0)), Sub(x1, x0)),
        Div(Mul(m, Sub(Power(x1, Float(2, 0)), Power(x0, Float(2, 0)))), Float(2, 0)))

\* y0 + m*(x1*(logx - 1) + x0)
LinLogPanel(m, logx, x0, x1, y0) ==
    Add(y0, Mul(m, Add(Mul(x1, Sub(logx, Float(1, 0))), x0)))

\* y0/m*(np.exp(m*(x1 - x0)) - 1)
LogLinPanel(m, x0, x1, y0) ==
    Mul(Div(y0, m), Sub(Exp(Mul(m, Sub(x1, x0))), Float(1, 0)))

\* y0/((m + 1)*x0**m)*(x1**(m + 1) - x0**(m + 1))
LogLogPanel(m, x0, x1, y0) ==
    Mul(Div(y0, Mul(Add(m, Float(1, 0)), Power(x0, m))),
        Sub(Power(x1, Add(m, Float(1, 0))), Power(x0, Add(m, Float(1, 0)))))

\* the item of partial_sum that law p gives for the panel from (x0, y0) to
\* (x1, y1); it stays 0 for a law that is none of the five
Panel(p, x0, x1, y0, y1) ==
    IF p = 1 THEN Mul(y0, Sub(x1, x0))
    ELSE IF p = 2 THEN LinLinPanel(Div(Sub(y1, y0), Sub(x1, x0)), x0, x1, y0)
    ELSE IF p = 3 THEN LinLogPanel(Div(Sub(y1, y0), Log(Div(x1, x0))), Log(Div(x1, x0)), x0, x1, y0)
    ELSE IF p = 4 THEN LogLinPanel(Div(Log(Div(y1, y0)), Sub(x1, x0)), x0, x1, y0)
    ELSE IF p = 5 THEN LogLogPanel(Div(Log(Div(y1, y0)), Log(Div(x1, x0))), x0, x1, y0)
    ELSE Float(0, 0)

\* the regions whose slice i_low:i_high holds panel i, i from 0
RegionsOfPanel(f, i) ==
    { k \in 1..Len(f.breakpoints) :
        /\ (IF k > 1 THEN f.breakpoints[k - 1] - 1 ELSE 0) <= i
        /\ i < f.breakpoints[k] - 1 }

\* partial_sum after the loop over the regions: the last region that holds a
\* panel is the one whose law stays
PartialSum(f) ==
    [i \in 1..(Len(f.x) - 1) |->
        IF RegionsOfPanel(f, i - 1) = {} THEN Float(0, 0)
        ELSE Panel(f.interpolation[Greatest(RegionsOfPanel(f, i - 1))],
                   f.x[i], f.x[i + 1], f.y[i], f.y[i + 1])]

RECURSIVE CumSum(_, _)
\* np.cumsum of the first n items
CumSum(a, n) ==
    IF n = 0 THEN <<>>
    ELSE IF n = 1 THEN <<a[1]>>
    ELSE Append(CumSum(a, n - 1), Add(CumSum(a, n - 1)[n - 1], a[n]))

\* Tabulated1D.integral, of a table whose x is sorted, whose y is as long as
\* its x and whose regions are as the invariant says; np.zeros(-1) raises
\* ValueError
integral(f) ==
    IF Len(f.x) = 0 THEN Raised("ValueError", 0, 0)
    ELSE Returned(<<Float(0, 0)>> \o CumSum(PartialSum(f), Len(f.x) - 1), 0, 0)

---------------------------------------------------------------------------
(* Tabulated1D on its own: one object built, or one method called on one *)

MaxPoints == 3      \* (x, y) pairs of a table
MaxXss == 6         \* entries of an XSS array
MaxTab1Lines == 3   \* lines of a stream with a TAB1 record

RECURSIVE FloatsUpTo(_, _)
\* the arrays of at most n floats of V
FloatsUpTo(V, n) ==
    IF n = 0 THEN {<<>>}
    ELSE FloatsUpTo(V, n - 1) \cup { Append(t, v) : t \in FloatsUpTo(V, n - 1), v \in V }

\* entries of an XSS array: counts, breakpoints, laws, values
AceValues == {Float(0, 0), Float(1, 0), Float(2, 0), Float(7, 0)}

\* values of a table given to the constructor
PointValues == {Float(1, 0), Float(2, 0)}

ConstructorCalls ==
    { [kind |-> "Tabulated1D", x |-> x, y |-> y] :
          x \in FloatsUpTo(PointValues, MaxPoints), y \in FloatsUpTo(PointValues, MaxPoints) }

AceCalls ==
    { [kind |-> "from_ace", xss |-> xss, idx |-> idx, convert_units |-> c] :
          xss \in FloatsUpTo(AceValues, MaxXss), idx \in 0..1, c \in BOOLEAN }

Tab1Calls == { [kind |-> "get_tab1_record"] }

\* the x of the tables on which a method is called: sorted, on the scale of 1
UnitGrids ==
    { <<>>, <<Float(1, 0)>>,
      <<Float(1, 0), Float(2, 0)>>, <<Float(1, 0), Float(3, 0)>>,
      <<Float(1, 0), Float(1, 0)>>, <<Float(0, 0), Float(1, 0)>>,
      <<Float(1, 0), Float(2, 0), Float(3, 0)>>,
      <<Float(1, 0), Float(1, 0), Float(2, 0)>> }

\* and on the scale of the absolute tolerance
TinyGrids == { <<Float(0, 0), Float(1, 0 - 13)>> }

\* the regions of a table of n points: one region, or two for three points
RegionsOf(n) ==
    { [breakpoints |-> <<n>>, interpolation |-> <<p>>] : p \in 1..5 } \cup
    (IF n < 3 THEN {}
     ELSE { [breakpoints |-> <<2, n>>, interpolation |-> <<p, q>>] : p \in 1..5, q \in 1..5 })

\* the tables with x in G: y of 2 and 4
TablesOn(G) ==
    UNION { { Tabulated1D(x, y, Given(r.breakpoints), Given(r.interpolation)) :
                y \in [DOMAIN x -> {Float(2, 0), Float(4, 0)}], r \in RegionsOf(Len(x)) } :
            x \in G }

UnitQueries ==
    { Float(0, 0), Float(5, 0 - 1), Float(1, 0), Float(1000001, 0 - 6), Float(15, 0 - 1),
      Float(2, 0), Float(25, 0 - 1), Float(3, 0), Float(4, 0) }

TinyQueries ==
    { Float(0, 0), Float(5, 0 - 15), Float(1, 0 - 14), Float(2, 0 - 14), Float(5, 0 - 14),
      Float(1, 0 - 13), Float(2, 0 - 13) }

\* arrays of one or two queries
ArraysOf(Q) == { <<q>> : q \in Q } \cup { <<q, r>> : q \in Q, r \in Q }

ScalarCalls ==
    { [kind |-> "scalar", f |-> f, x |-> q] : f \in TablesOn(UnitGrids), q \in UnitQueries } \cup
    { [kind |-> "scalar", f |-> f, x |-> q] : f \in TablesOn(TinyGrids), q \in TinyQueries }

ArrayCalls ==
    { [kind |-> "array", f |-> f, x |-> q] :
          f \in TablesOn(UnitGrids), q \in ArraysOf(UnitQueries) } \cup
    { [kind |-> "array", f |-> f, x |-> q] :
          f \in TablesOn(TinyGrids), q \in ArraysOf(TinyQueries) }

IntegralCalls == { [kind |-> "integral", f |-> f] : f \in TablesOn(UnitGrids \cup TinyGrids) }

InitFunction ==
    /\ \/ arg \in ConstructorCalls
       \/ arg \in AceCalls
       \/ arg \in Tab1Calls
       \/ arg \in ScalarCalls
       \/ arg \in ArrayCalls
       \/ arg \in IntegralCalls
    /\ tape \in (IF arg.kind = "get_tab1_record" THEN LinesUpTo(MaxTab1Lines) ELSE {<<>>})
    /\ out = <<>>
    /\ phase = "call"
    /\ pos = 0
    /\ mat = NoMaterial("none", 0)
    /\ materials = <<>>
    /\ ret = NoRet
    /\ nset = 0

\* Tabulated1D(x, y)
CallTabulated1D ==
    /\ phase = "call"
    /\ arg.kind = "Tabulated1D"
    /\ out' = Returned(Tabulated1D(arg.x, arg.y, PyNone, PyNone), 0, 0)
    /\ phase' = "Tabulated1D"
    /\ UNCHANGED <<arg, tape, pos, mat, materials, ret, nset>>

CallFromAce ==
    /\ phase = "call"
    /\ arg.kind = "from_ace"
    /\ out' = from_ace(arg.xss, arg.idx, arg.convert_units)
    /\ phase' = "from_ace"
    /\ UNCHANGED <<arg, tape, pos, mat, materials, ret, nset>>

\* get_tab1_record on the stream
ReadTab1 ==
    /\ arg.kind = "get_tab1_record"
    /\ CallGetTab1Record

\* f(x) for a scalar x
CallScalar ==
    /\ phase = "call"
    /\ arg.kind = "scalar"
    /\ out' = interpolate_scalar(arg.f, arg.x)
    /\ phase' = "interpolate_scalar"
    /\ UNCHANGED <<arg, tape, pos, mat, materials, ret, nset>>

\* f(x) for an array x
CallArray ==
    /\ phase = "call"
    /\ arg.kind = "array"
    /\ out' = Tabulated1D_call(arg.f, arg.x)
    /\ phase' = "Tabulated1D_call"
    /\ UNCHANGED <<arg, tape, pos, mat, materials, ret, nset>>

CallIntegral ==
    /\ phase = "call"
    /\ arg.kind = "integral"
    /\ out' = integral(arg.f)
    /\ phase' = "integral"
    /\ UNCHANGED <<arg, tape, pos, mat, materials, ret, nset>>

NextFunction ==
    \/ CallTabulated1D
    \/ CallFromAce
    \/ ReadTab1
    \/ CallScalar
    \/ CallArray
    \/ CallIntegral

SpecFunction == InitFunction /\ [][NextFunction]_vars

\* the region invariant of a Tabulated1D: breakpoints strictly increasing,
\* the last of them the number of points, every law one of the five
RegionInvariant(f) ==
    /\ \A k \in 1..(Len(f.breakpoints) - 1) : f.breakpoints[k] < f.breakpoints[k + 1]
    /\ Len(f.breakpoints) >= 1
    /\ f.breakpoints[Len(f.breakpoints)] = Len(f.x)
    /\ Len(f.interpolation) = Len(f.breakpoints)
    /\ \A k \in 1..Len(f.interpolation) : f.interpolation[k] \in 1..5

\* a constructor was called and returned
Produced == phase \in {"get_tab1_record", "Tabulated1D", "from_ace"} /\ out.exc = "none"

\* the object it returned
Object == IF phase = "get_tab1_record" THEN out.val[2] ELSE out.val

\* C17: every Tabulated1D returned by get_tab1_record, by the constructor
\* without breakpoints and laws or by from_ace satisfies the region invariant,
\* and the one built without breakpoints and laws has the single region
\* (number of points, 2).
C17_RegionInvariant ==
    Produced =>
        /\ RegionInvariant(Object)
        /\ phase = "Tabulated1D" =>
              Object.breakpoints = <<Len(arg.x)>> /\ Object.interpolation = <<2>>

\* the constructor without breakpoints and laws gives the single region
\* (number of points, 2), which satisfies the invariant
DefaultRegion ==
    phase = "Tabulated1D" =>
        /\ out.exc = "none"
        /\ out.val.breakpoints = <<Len(arg.x)>> /\ out.val.interpolation = <<2>>
        /\ out.val.x = arg.x /\ out.val.y = arg.y
        /\ RegionInvariant(out.val)

\* a table of two points was built without breakpoints and laws
DefaultBuilt ==
    /\ phase = "Tabulated1D"
    /\ Len(arg.x) = 2
    /\ out.val.breakpoints = <<2>>

\* get_tab1_record returned a table whose only region has breakpoint 0 and law 0
Tab1OfBlankRegion ==
    /\ phase = "get_tab1_record"
    /\ out.exc = "none"
    /\ out.val[2].breakpoints = <<0>>
    /\ out.val[2].interpolation = <<0>>
    /\ Len(out.val[2].x) = 1

\* from_ace returned a table of no point with the law 7
AceOfNoLaw ==
    /\ phase = "from_ace"
    /\ out.exc = "none"
    /\ out.val.interpolation = <<7>>
    /\ out.val.x = <<>>

\* the first and the last point of the table a method was called on
First(f) == [x |-> f.x[1], y |-> f.y[1]]

Final(f) == [x |-> f.x[Len(f.x)], y |-> f.y[Len(f.y)]]

\* C18 as stated: a scalar query at or below x[0] gives y[0], and one at or
\* above x[-1] gives y[-1].
C18_ClampAsStated ==
    (phase = "interpolate_scalar" /\ Len(arg.f.x) >= 1) =>
        /\ LessEq(arg.x, First(arg.f).x) => out = Returned(First(arg.f).y, 0, 0)
        /\ LessEq(Final(arg.f).x, arg.x) => out = Returned(Final(arg.f).y, 0, 0)

\* C18: a scalar query at or below x[0] gives y[0], and one above x[0] that is
\* at or above x[-1] gives y[-1], whatever the laws are.
C18_Clamp ==
    (phase = "interpolate_scalar" /\ Len(arg.f.x) >= 1) =>
        /\ LessEq(arg.x, First(arg.f).x) => out = Returned(First(arg.f).y, 0, 0)
        /\ (LessEq(Final(arg.f).x, arg.x) /\ ~LessEq(arg.x, First(arg.f).x)) =>
              out = Returned(Final(arg.f).y, 0, 0)

\* C18 witness: a log-log table on [1, 2] with y = (2, 4) was evaluated at 3
\* and gave 4.
C18_Witness ==
    /\ phase = "interpolate_scalar"
    /\ arg.f.x = <<Float(1, 0), Float(2, 0)>>
    /\ arg.f.y = <<Float(2, 0), Float(4, 0)>>
    /\ arg.f.interpolation = <<5>>
    /\ arg.x = Float(3, 0)
    /\ out = Returned(Float(4, 0), 0, 0)

\* a table of two points at the same x, with different y, was evaluated at
\* that x and gave y[0]
ClampedAtBothEnds ==
    /\ phase = "interpolate_scalar"
    /\ arg.f.x = <<Float(1, 0), Float(1, 0)>>
    /\ arg.f.y = <<Float(2, 0), Float(4, 0)>>
    /\ arg.x = Float(1, 0)
    /\ out = Returned(Float(2, 0), 0, 0)

\* the law of the panel between the points i and i + 1, i from 1, of a table
\* whose regions are as the invariant says: that of the first region whose
\* breakpoint is beyond i
LawOfPanel(f, i) ==
    f.interpolation[Least({ k \in 1..Len(f.breakpoints) : i < f.breakpoints[k] })]

\* the panels of a table
Panels(f) == 1..(Len(f.x) - 1)

\* the integral of the interpolant over the panel between the points i and
\* i + 1: a rectangle for a histogram and for a constant y, a trapezoid for
\* lin-lin
ClaimedPanel(f, i) ==
    IF LawOfPanel(f, i) = 2
    THEN FloatDiv(FloatMul(FloatAdd(f.y[i], f.y[i + 1]), Sub(f.x[i + 1], f.x[i])), Float(2, 0))
    ELSE FloatMul(f.y[i], Sub(f.x[i + 1], f.x[i]))

RECURSIVE ClaimedIntegral(_, _)
\* the integral over the first n panels
ClaimedIntegral(f, n) ==
    IF n = 0 THEN Float(0, 0) ELSE FloatAdd(ClaimedIntegral(f, n - 1), ClaimedPanel(f, n))

\* the tables whose integral the claim gives in closed form here: x strictly
\* increasing, above zero where a law takes its logarithm, and every panel a
\* histogram, lin-lin or of constant y
IntegralStated(f) ==
    \A i \in Panels(f) :
        /\ FloatLess(f.x[i], f.x[i + 1])
        /\ LawOfPanel(f, i) \in {3, 5} => FloatLess(Float(0, 0), f.x[i])
        /\ LawOfPanel(f, i) \in {1, 2} \/ f.y[i] = f.y[i + 1]

\* C19: integral() returns an array as long as x that starts with 0 and ends
\* with the integral of the interpolant over [x[0], x[-1]]: rectangles for a
\* histogram, trapezoids for lin-lin, and c*(x[-1] - x[0]) for a constant
\* y = c under each of the five laws.
C19_IntegralAsStated ==
    (phase = "integral" /\ Len(arg.f.x) >= 1) =>
        /\ out.exc = "none"
        /\ Len(out.val) = Len(arg.f.x)
        /\ out.val[1] = Float(0, 0)
        /\ IntegralStated(arg.f) =>
              out.val[Len(out.val)] = ClaimedIntegral(arg.f, Len(arg.f.x) - 1)

\* integral() is as stated where no panel is lin-log or log-lin
IntegralOfOtherLaws ==
    (phase = "integral" /\ Len(arg.f.x) >= 1) =>
        /\ out.exc = "none"
        /\ Len(out.val) = Len(arg.f.x)
        /\ out.val[1] = Float(0, 0)
        /\ (IntegralStated(arg.f) /\ \A i \in Panels(arg.f) : LawOfPanel(arg.f, i) \in {1, 2, 5}) =>
              out.val[Len(out.val)] = ClaimedIntegral(arg.f, Len(arg.f.x) - 1)

\* the integral of a table of three points, lin-lin then log-log with a
\* constant y, was returned
IntegralReturned ==
    /\ phase = "integral"
    /\ arg.f.x = <<Float(1, 0), Float(2, 0), Float(3, 0)>>
    /\ arg.f.y = <<Float(2, 0), Float(4, 0), Float(4, 0)>>
    /\ arg.f.breakpoints = <<2, 3>>
    /\ arg.f.interpolation = <<2, 5>>
    /\ out.val = <<Float(0, 0), Float(3, 0), Float(7, 0)>>

\* the lin-log integral of y = 2 over [1, 3] was returned as 2
LinLogOfConstant ==
    /\ phase = "integral"
    /\ arg.f.x = <<Float(1, 0), Float(3, 0)>>
    /\ arg.f.y = <<Float(2, 0), Float(2, 0)>>
    /\ arg.f.interpolation = <<3>>
    /\ out.val = <<Float(0, 0), Float(2, 0)>>

\* the log-lin integral of y = 2 over [1, 3] was returned as nan
LogLinOfConstant ==
    /\ phase = "integral"
    /\ arg.f.x = <<Float(1, 0), Float(3, 0)>>
    /\ arg.f.y = <<Float(2, 0), Float(2, 0)>>
    /\ arg.f.interpolation = <<4>>
    /\ out.val = <<Float(0, 0), NaN>>

\* a is within 1e-14 of b
Within(a, b) == LessEq(FloatAbs(Sub(a, b)), ATol)

\* what the regions give for the query x: its interpolated value, 0 outside
\* the table
Interpolated(f, x) == CallRegions(f, x, SearchSortedRight(f.x, x) - 1, 0, Float(0, 0))

\* C20: an item of an array of queries gets y[0] or y[-1] where it is within
\* 1e-14 of x[0] or x[-1], and keeps what the regions give where it is farther
\* than 1e-14 from both.
C20_SnapAsStated ==
    (phase = "Tabulated1D_call" /\ Len(arg.f.x) >= 1) =>
        /\ out.exc = "none"
        /\ \A i \in DOMAIN arg.x :
              /\ Within(arg.x[i], Final(arg.f).x) \/ Within(arg.x[i], First(arg.f).x) =>
                    out.val[i] \in {First(arg.f).y, Final(arg.f).y}
              /\ (Within(arg.x[i], First(arg.f).x) /\ ~Within(arg.x[i], Final(arg.f).x)) =>
                    out.val[i] = First(arg.f).y
              /\ (Within(arg.x[i], Final(arg.f).x) /\ ~Within(arg.x[i], First(arg.f).x)) =>
                    out.val[i] = Final(arg.f).y
              /\ (~Within(arg.x[i], First(arg.f).x) /\ ~Within(arg.x[i], Final(arg.f).x)) =>
                    out.val[i] = Interpolated(arg.f, arg.x[i])

\* a is farther from b than 1e-14 + 1e-5*|b|
Beyond(a, b) == ~LessEq(Sub(FloatAbs(Sub(a, b)), FloatMul(RTol, FloatAbs(b))), ATol)

\* an item keeps what the regions give where it is farther than
\* 1e-14 + 1e-5*|x[0]| from x[0] and than 1e-14 + 1e-5*|x[-1]| from x[-1], and
\* gets y[0] or y[-1] where it is within 1e-14 of x[0] or x[-1]
SnapWithRelative ==
    (phase = "Tabulated1D_call" /\ Len(arg.f.x) >= 1) =>
        /\ out.exc = "none"
        /\ \A i \in DOMAIN arg.x :
              /\ Within(arg.x[i], Final(arg.f).x) \/ Within(arg.x[i], First(arg.f).x) =>
                    out.val[i] \in {First(arg.f).y, Final(arg.f).y}
              /\ (Beyond(arg.x[i], First(arg.f).x) /\ Beyond(arg.x[i], Final(arg.f).x)) =>
                    out.val[i] = Interpolated(arg.f, arg.x[i])

\* a lin-lin table on [1, 2] with y = (2, 4) was evaluated at 1.000001, which
\* is 1e-6 from x[0], and gave y[0] = 2 where the regions give 2.000002
SnappedByRelative ==
    /\ phase = "Tabulated1D_call"
    /\ arg.f.x = <<Float(1, 0), Float(2, 0)>>
    /\ arg.f.y = <<Float(2, 0), Float(4, 0)>>
    /\ arg.f.interpolation = <<2>>
    /\ arg.x = <<Float(1000001, 0 - 6)>>
    /\ Interpolated(arg.f, arg.x[1]) = Float(2000002, 0 - 6)
    /\ out.val = <<Float(2, 0)>>

\* a lin-lin table on [0, 1e-13] was evaluated at 5e-15 and at 2e-14 and gave
\* y[0] for the first and the interpolated value for the second
SnappedByAbsolute ==
    /\ phase = "Tabulated1D_call"
    /\ arg.f.x = <<Float(0, 0), Float(1, 0 - 13)>>
    /\ arg.f.y = <<Float(2, 0), Float(4, 0)>>
    /\ arg.f.interpolation = <<2>>
    /\ arg.x = <<Float(5, 0 - 15), Float(2, 0 - 14)>>
    /\ out.val = <<Float(2, 0), Float(24, 0 - 1)>>

---------------------------------------------------------------------------
(* The section parsers of mf6.py, mf26.py and mf12.py.  A parser is handed  *)
(* the lines of its section and reads them with the record readers; its     *)
(* result is what it returns or raises, the offset it leaves the stream at  *)
(* and the warnings it has emitted with warn().  A dict is a record of its  *)
(* keys; a key the code sets on one path only is a field on that path only. *)

\* values[a::k]
Stride(values, a, k) ==
    [j \in 1..((Len(values) - a + k - 1) \div k) |-> values[a + 1 + (j - 1) * k]]

\* the state of a loop of reads after the reader result r: before its first
\* turn, after a turn that added item, after a turn that raised
Start(r) == [pos |-> r.pos, missing |-> r.missing, exc |-> r.exc, list |-> <<>>]

Step(st, r, item) ==
    [st EXCEPT !.pos = r.pos, !.missing = @ + r.missing, !.list = Append(@, item)]

Stop(st, r, exc) == [st EXCEPT !.pos = r.pos, !.missing = @ + r.missing, !.exc = exc]

\* what a parser gives after its last loop st: the exception that ended the
\* loop, or val
Finish(st, val) ==
    IF st.exc # "none" THEN Raised(st.exc, st.pos, st.missing)
    ELSE Returned(val, st.pos, st.missing)

\* values.shape = (rows, cols) on a flat array of n items; -1 stands for the
\* dimension numpy works out
CanReshape(n, rows, cols) ==
    LET r == IF rows = 0 - 1 /\ cols > 0 THEN n \div cols ELSE rows
        c == IF cols = 0 - 1 /\ rows > 0 THEN n \div rows ELSE cols
    IN  r >= 0 /\ c >= 0 /\ r * c = n

\* values[:, a:] of the array of rows of cols items; cols > 0
Columns(values, cols, a) ==
    [i \in 1..(Len(values) \div cols) |->
        SubSeq(values, (i - 1) * cols + a + 1, i * cols)]

\* one turn of ContinuumEnergyAngle.dict_from_endf on the LIST record
\* (items, values): the shape (NEP, NA + 2) is given to the values, and
\* values[:, 0] raises IndexError on an array without columns
ContinuumEntry(items, values) ==
    LET cols == IF items[4] + 2 = 0 - 1 THEN Len(values) \div items[6] ELSE items[4] + 2
    IN  IF ~CanReshape(Len(values), items[6], items[4] + 2) THEN [exc |-> "ValueError"]
        ELSE IF cols = 0 THEN [exc |-> "IndexError"]
        ELSE [exc |-> "none", E |-> items[2], ND |-> items[3], NA |-> items[4],
              NW |-> items[5], NEP |-> items[6],
              E_out |-> Stride(values, 0, cols), b |-> Columns(values, cols, 1)]

RECURSIVE ContinuumEnergies(_, _, _)
\* the loop of ContinuumEnergyAngle.dict_from_endf over its NE LIST records
ContinuumEnergies(lines, NE, st0) ==
    The({ IF st.exc # "none" \/ Len(st.list) >= NE THEN st
          ELSE The({ IF r.exc # "none" THEN Stop(st, r, r.exc)
                     ELSE The({ IF e.exc # "none" THEN Stop(st, r, e.exc)
                                ELSE ContinuumEnergies(lines, NE, Step(st, r, e))
                                : e \in {ContinuumEntry(r.val[1], r.val[2])} })
                     : r \in {get_list_record(lines, st.pos)} })
          : st \in {st0} })

\* ContinuumEnergyAngle.dict_from_endf: one TAB2 record, then NE LIST records;
\* np.zeros(NE) raises for a negative NE
ContinuumEnergyAngle(lines, p) ==
    The({ IF t.exc # "none" THEN t
          ELSE IF t.val[1][6] < 0 THEN Raised("ValueError", t.pos, t.missing)
          ELSE The({ Finish(st, [kind |-> "dict", LANG |-> t.val[1][3],
                                 LEP |-> t.val[1][4], NR |-> t.val[1][5],
                                 NE |-> t.val[1][6], E_int |-> t.val[2],
                                 E |-> [i \in 1..Len(st.list) |-> st.list[i].E],
                                 distribution |-> st.list])
                     : st \in {ContinuumEnergies(lines, t.val[1][6], Start(t))} })
          : t \in {get_tab2_record(lines, p)} })

RECURSIVE TwoBodyEnergies(_, _, _)
\* the loop of DiscreteTwoBodyScattering.dict_from_endf over its NE LIST
\* records; data['A_l'] is assigned again on every turn
TwoBodyEnergies(lines, NE, st0) ==
    The({ IF st.exc # "none" \/ Len(st.list) >= NE THEN st
          ELSE The({ IF r.exc # "none" THEN Stop(st, r, r.exc)
                     ELSE TwoBodyEnergies(lines, NE, Step(st, r,
                              [E |-> r.val[1][2], LANG |-> r.val[1][3],
                               NW |-> r.val[1][5], NL |-> r.val[1][6],
                               A_l |-> r.val[2]]))
                     : r \in {get_list_record(lines, st.pos)} })
          : st \in {st0} })

\* the dict DiscreteTwoBodyScattering.dict_from_endf has built after its loop
TwoBodyData(params, E_int, list) ==
    [kind |-> "dict", NR |-> params[5], NE |-> params[6], E_int |-> E_int,
     E |-> [i \in 1..Len(list) |-> list[i].E],
     A_l |-> IF list = <<>> THEN PyNone ELSE Given(list[Len(list)].A_l),
     distribution |-> [i \in 1..Len(list) |->
                          [LANG |-> list[i].LANG, NW |-> list[i].NW, NL |-> list[i].NL]]]

\* the end of DiscreteTwoBodyScattering.dict_from_endf: there is no return
\* statement, so the call gives None
TwoBodyReturn(data) == PyNone

\* DiscreteTwoBodyScattering.dict_from_endf: one TAB2 record, then NE LIST
\* records
DiscreteTwoBodyScattering(lines, p) ==
    The({ IF t.exc # "none" THEN t
          ELSE IF t.val[1][6] < 0 THEN Raised("ValueError", t.pos, t.missing)
          ELSE The({ Finish(st, TwoBodyReturn(TwoBodyData(t.val[1], t.val[2], st.list)))
                     : st \in {TwoBodyEnergies(lines, t.val[1][6], Start(t))} })
          : t \in {get_tab2_record(lines, p)} })

RECURSIVE ChargedEnergies(_, _, _)
\* the loop of ChargedParticleElasticScattering.dict_from_endf
ChargedEnergies(lines, NE, st0) ==
    The({ IF st.exc # "none" \/ Len(st.list) >= NE THEN st
          ELSE The({ IF r.exc # "none" THEN Stop(st, r, r.exc)
                     ELSE ChargedEnergies(lines, NE, Step(st, r,
                              [E |-> r.val[1][2], LTP |-> r.val[1][3],
                               NW |-> r.val[1][5], NL |-> r.val[1][6], A |-> r.val[2]]))
                     : r \in {get_list_record(lines, st.pos)} })
          : st \in {st0} })

\* ChargedParticleElasticScattering.dict_from_endf
ChargedParticleElasticScattering(lines, p) ==
    The({ IF t.exc # "none" THEN t
          ELSE The({ Finish(st, [kind |-> "dict", SPI |-> t.val[1][1],
                                 LIDP |-> t.val[1][3], NE |-> t.val[1][6],
                                 E_int |-> t.val[2], distribution |-> st.list])
                     : st \in {ChargedEnergies(lines, t.val[1][6], Start(t))} })
          : t \in {get_tab2_record(lines, p)} })

\* NBodyPhaseSpace.dict_from_endf: one CONT record
NBodyPhaseSpace(lines, p) ==
    The({ IF c.exc # "none" THEN c
          ELSE Returned([kind |-> "dict", APSX |-> c.val[1], NPSX |-> c.val[6]],
                        c.pos, c.missing)
          : c \in {get_cont_record(lines, p, FALSE)} })

RECURSIVE LaboratoryCosines(_, _, _)
\* the loop of LaboratoryAngleEnergy.dict_from_endf over the NMU TAB1 records
\* of one incident energy
LaboratoryCosines(lines, NMU, st0) ==
    The({ IF st.exc # "none" \/ Len(st.list) >= NMU THEN st
          ELSE The({ IF r.exc # "none" THEN Stop(st, r, r.exc)
                     ELSE LaboratoryCosines(lines, NMU, Step(st, r,
                              [mu |-> r.val[1][2], f |-> r.val[2]]))
                     : r \in {get_tab1_record(lines, st.pos)} })
          : st \in {st0} })

RECURSIVE LaboratoryEnergies(_, _, _)
\* the loop of LaboratoryAngleEnergy.dict_from_endf over the incident energies:
\* one TAB2 record and NMU TAB1 records each
LaboratoryEnergies(lines, NE, st0) ==
    The({ IF st.exc # "none" \/ Len(st.list) >= NE THEN st
          ELSE The({ IF t.exc # "none" THEN Stop(st, t, t.exc)
                     ELSE The({ IF mu.exc # "none"
                                THEN [st EXCEPT !.pos = mu.pos, !.exc = mu.exc,
                                                !.missing = @ + mu.missing]
                                ELSE LaboratoryEnergies(lines, NE,
                                         [st EXCEPT !.pos = mu.pos,
                                                    !.missing = @ + mu.missing,
                                                    !.list = Append(@,
                                             [E |-> t.val[1][2], NRM |-> t.val[1][5],
                                              NMU |-> t.val[1][6], mu_int |-> t.val[2],
                                              mu |-> mu.list])])
                                : mu \in {LaboratoryCosines(lines, t.val[1][6], Start(t))} })
                     : t \in {get_tab2_record(lines, st.pos)} })
          : st \in {st0} })

\* LaboratoryAngleEnergy.dict_from_endf
LaboratoryAngleEnergy(lines, p) ==
    The({ IF t.exc # "none" THEN t
          ELSE The({ Finish(st, [kind |-> "dict", NE |-> t.val[1][6], E_int |-> t.val[2],
                                 distribution |-> st.list])
                     : st \in {LaboratoryEnergies(lines, t.val[1][6], Start(t))} })
          : t \in {get_tab2_record(lines, p)} })

\* what stands for a key that is not set
NoKey == [kind |-> "no key"]

\* the branches of parse_mf6 on LAW: the distribution read, or no key
Distribution6(lines, LAW, p) ==
    CASE LAW = 1 -> ContinuumEnergyAngle(lines, p)
      [] LAW = 2 -> DiscreteTwoBodyScattering(lines, p)
      [] LAW = 5 -> ChargedParticleElasticScattering(lines, p)
      [] LAW = 6 -> NBodyPhaseSpace(lines, p)
      [] LAW = 7 -> LaboratoryAngleEnergy(lines, p)
      [] OTHER -> Returned(NoKey, p, 0)

\* p['distribution'] = d where a branch has read one
WithDistribution(p, d) == IF d = NoKey THEN p ELSE p @@ [distribution |-> d]

RECURSIVE Products6(_, _, _)
\* the loop of parse_mf6 over the NK products: the yield, then the
\* distribution its LAW asks for
Products6(lines, NK, st0) ==
    The({ IF st.exc # "none" \/ Len(st.list) >= NK THEN st
          ELSE The({ IF y.exc # "none" THEN Stop(st, y, y.exc)
                     ELSE The({ IF d.exc # "none" THEN Stop(Stop(st, y, "none"), d, d.exc)
                                ELSE Products6(lines, NK, Step(Stop(st, y, "none"), d,
                                         WithDistribution(
                                             [ZAP |-> IntOfFloat(y.val[1][1]),
                                              AWP |-> y.val[1][2], LIP |-> y.val[1][3],
                                              LAW |-> y.val[1][4], y_i |-> y.val[2]],
                                             d.val)))
                                : d \in {Distribution6(lines, y.val[1][4], y.pos)} })
                     : y \in {get_tab1_record(lines, st.pos)} })
          : st \in {st0} })

\* a parser's result and the warnings it has emitted
Warned(r, warnings) ==
    [exc |-> r.exc, val |-> r.val, pos |-> r.pos, missing |-> r.missing,
     warnings |-> warnings]

\* parse_mf6 of mf6.py: it never calls warn()
parse_mf6(lines, p) ==
    The({ IF h.exc # "none" THEN Warned(h, <<>>)
          ELSE The({ Warned(Finish(st, [kind |-> "dict", ZA |-> h.val[1],
                                        AWR |-> h.val[2], JP |-> h.val[3],
                                        LCT |-> h.val[4], NK |-> h.val[5],
                                        products |-> st.list]),
                            <<>>)
                     : st \in {Products6(lines, h.val[5], Start(h))} })
          : h \in {get_head_record(lines, p)} })

\* warn(f'Unrecognized {LAW=} in MF=26'), warn(f"Unrecognized LO value: {LO}")
Warning(name, value) == [name |-> name, value |-> value]

\* parse_mf26's branch for LAW = 8: one TAB1 record
EnergyTransfer(lines, p) ==
    The({ IF t.exc # "none" THEN t
          ELSE Returned([kind |-> "dict", ET |-> t.val[2]], t.pos, t.missing)
          : t \in {get_tab1_record(lines, p)} })

\* the branches of parse_mf26 on LAW
Distribution26(lines, LAW, p) ==
    CASE LAW = 1 -> ContinuumEnergyAngle(lines, p)
      [] LAW = 2 -> DiscreteTwoBodyScattering(lines, p)
      [] LAW = 8 -> EnergyTransfer(lines, p)
      [] OTHER -> Returned(NoKey, p, 0)

\* the warnings after the product of this LAW
Warnings26(warnings, LAW) ==
    IF LAW \in {1, 2, 8} THEN warnings ELSE Append(warnings, Warning("LAW", LAW))

RECURSIVE Products26(_, _, _)
\* the loop of parse_mf26 over the NK products; st.warnings holds the warnings
\* emitted so far
Products26(lines, NK, st0) ==
    The({ IF st.exc # "none" \/ Len(st.list) >= NK THEN st
          ELSE The({ IF y.exc # "none" THEN Stop(st, y, y.exc)
                     ELSE The({ IF d.exc # "none" THEN Stop(Stop(st, y, "none"), d, d.exc)
                                ELSE Products26(lines, NK,
                                         [Step(Stop(st, y, "none"), d,
                                               WithDistribution(
                                                   [ZAP |-> IntOfFloat(y.val[1][1]),
                                                    AWI |-> y.val[1][2],
                                                    LAW |-> y.val[1][4], y |-> y.val[2]],
                                                   d.val))
                                          EXCEPT !.warnings = Warnings26(@, y.val[1][4])])
                                : d \in {Distribution26(lines, y.val[1][4], y.pos)} })
                     : y \in {get_tab1_record(lines, st.pos)} })
          : st \in {st0} })

\* parse_mf26 of mf26.py
parse_mf26(lines, p) ==
    The({ IF h.exc # "none" THEN Warned(h, <<>>)
          ELSE The({ Warned(Finish(st, [kind |-> "dict", ZA |-> h.val[1],
                                        AWR |-> h.val[2], NK |-> h.val[5],
                                        products |-> st.list]),
                            st.warnings)
                     : st \in {Products26(lines, h.val[5],
                                          Start(h) @@ [warnings |-> <<>>])} })
          : h \in {get_head_record(lines, p)} })

RECURSIVE Multiplicities(_, _, _)
\* the loop of parse_mf12 over the NK multiplicities (LO = 1)
Multiplicities(lines, NK, st0) ==
    The({ IF st.exc # "none" \/ Len(st.list) >= NK THEN st
          ELSE The({ IF r.exc # "none" THEN Stop(st, r, r.exc)
                     ELSE Multiplicities(lines, NK, Step(st, r,
                              [Eg |-> r.val[1][1], ES |-> r.val[1][2], LP |-> r.val[1][3],
                               LF |-> r.val[1][4], y |-> r.val[2]]))
                     : r \in {get_tab1_record(lines, st.pos)} })
          : st \in {st0} })

\* parse_mf12 for LO = 1 after the total yield Y (the header itself where
\* NK <= 1 and no total yield is read): the multiplicities
MultiplicitiesGiven(lines, h, Y) ==
    The({ Finish(st, IF h.val[5] > 1
                     THEN [kind |-> "dict", ZA |-> h.val[1], AWR |-> h.val[2],
                           LO |-> h.val[3], NK |-> h.val[5], Y |-> Y.val[2],
                           multiplicities |-> st.list]
                     ELSE [kind |-> "dict", ZA |-> h.val[1], AWR |-> h.val[2],
                           LO |-> h.val[3], NK |-> h.val[5],
                           multiplicities |-> st.list])
          : st \in {Multiplicities(lines, h.val[5], Start(Y))} })

\* the transitions of parse_mf12 for LO = 2: values[2*i : 2*(i + 1)] or
\* values[3*i : 3*(i + 1)] unpacked into two or three names, nothing for
\* another LG
Transitions(values, LG, NT) ==
    LET k == IF LG = 1 THEN 2 ELSE 3
        n == IF NT < 0 THEN 0 ELSE NT
    IN  IF LG \notin {1, 2} THEN [ok |-> TRUE, list |-> <<>>]
        ELSE IF n * k > Len(values) THEN [ok |-> FALSE, list |-> <<>>]
        ELSE [ok |-> TRUE,
              list |-> [i \in 1..n |->
                          IF LG = 1
                          THEN [ES |-> values[2 * i - 1], TP |-> values[2 * i]]
                          ELSE [ES |-> values[3 * i - 2], TP |-> values[3 * i - 1],
                                GP |-> values[3 * i]]]]

\* parse_mf12 for LO = 2: one LIST record of transition probabilities
TransitionsGiven(lines, h) ==
    The({ IF r.exc # "none" THEN Raised(r.exc, r.pos, h.missing + r.missing)
          ELSE The({ IF ~tr.ok THEN Raised("ValueError", r.pos, h.missing + r.missing)
                     ELSE Returned([kind |-> "dict", ZA |-> h.val[1], AWR |-> h.val[2],
                                    LO |-> h.val[3], NK |-> h.val[5], LG |-> h.val[4],
                                    ES_NS |-> r.val[1][1], LP |-> r.val[1][3],
                                    NT |-> r.val[1][6], transitions |-> tr.list],
                                   r.pos, h.missing + r.missing)
                     : tr \in {Transitions(r.val[2], h.val[4], r.val[1][6])} })
          : r \in {get_list_record(lines, h.pos)} })

\* the result r of a read made after the read h
Following(h, r) == [r EXCEPT !.missing = @ + h.missing]

\* parse_mf12 of mf12.py
parse_mf12(lines, p) ==
    The({ IF h.exc # "none" THEN Warned(h, <<>>)
          ELSE IF h.val[3] = 1
          THEN Warned(MultiplicitiesGiven(lines, h,
                          IF h.val[5] > 1 THEN Following(h, get_tab1_record(lines, h.pos))
                          ELSE h),
                      <<>>)
          ELSE IF h.val[3] = 2 THEN Warned(TransitionsGiven(lines, h), <<>>)
          ELSE Warned(Returned([kind |-> "dict", ZA |-> h.val[1], AWR |-> h.val[2],
                                LO |-> h.val[3], NK |-> h.val[5]], h.pos, h.missing),
                      <<Warning("LO", h.val[3])>>)
          : h \in {get_head_record(lines, p)} })

---------------------------------------------------------------------------
(* parse_mf5 of mf5.py: the energy distributions of MF=5 *)

RECURSIVE Tab1Records(_, _, _)
\* n calls of get_tab1_record one after the other, the first exception ending
\* them; the list holds (params, function) of every record
Tab1Records(lines, n, st0) ==
    The({ IF st.exc # "none" \/ Len(st.list) >= n THEN st
          ELSE The({ IF r.exc # "none" THEN Stop(st, r, r.exc)
                     ELSE Tab1Records(lines, n, Step(st, r, r.val))
                     : r \in {get_tab1_record(lines, st.pos)} })
          : st \in {st0} })

\* a loop of reads that starts at offset p
StartAt(p) == [pos |-> p, missing |-> 0, exc |-> "none", list |-> <<>>]

\* ArbitraryTabulated.dict_from_endf (LF = 1): one TAB2 record, then one TAB1
\* record per incident energy; np.zeros(n_energies) raises for a negative count
ArbitraryTabulated(lines, p) ==
    The({ IF t.exc # "none" THEN t
          ELSE IF t.val[1][6] < 0 THEN Raised("ValueError", t.pos, t.missing)
          ELSE The({ Finish(st, [kind |-> "dict", E_int |-> t.val[2],
                                 E |-> [j \in 1..Len(st.list) |-> st.list[j][1][2]],
                                 g |-> [j \in 1..Len(st.list) |-> st.list[j][2]]])
                     : st \in {Tab1Records(lines, t.val[1][6], Start(t))} })
          : t \in {get_tab2_record(lines, p)} })

\* GeneralEvaporation.dict_from_endf (LF = 5): theta and g
GeneralEvaporation(lines, params, p) ==
    The({ Finish(st, [kind |-> "dict", U |-> params[1], theta |-> st.list[1][2],
                      g |-> st.list[2][2]])
          : st \in {Tab1Records(lines, 2, StartAt(p))} })

\* MaxwellEnergy.dict_from_endf (LF = 7): theta
MaxwellEnergy(lines, params, p) ==
    The({ Finish(st, [kind |-> "dict", U |-> params[1], theta |-> st.list[1][2]])
          : st \in {Tab1Records(lines, 1, StartAt(p))} })

\* Evaporation.dict_from_endf (LF = 9): theta
Evaporation(lines, params, p) ==
    The({ Finish(st, [kind |-> "dict", U |-> params[1], theta |-> st.list[1][2]])
          : st \in {Tab1Records(lines, 1, StartAt(p))} })

\* WattEnergy.dict_from_endf (LF = 11): a and b
WattEnergy(lines, params, p) ==
    The({ Finish(st, [kind |-> "dict", U |-> params[1], a |-> st.list[1][2],
                      b |-> st.list[2][2]])
          : st \in {Tab1Records(lines, 2, StartAt(p))} })

\* MadlandNix.dict_from_endf (LF = 12): T_M
MadlandNix(lines, params, p) ==
    The({ Finish(st, [kind |-> "dict", EFL |-> params[1], EFH |-> params[2],
                      T_M |-> st.list[1][2]])
          : st \in {Tab1Records(lines, 1, StartAt(p))} })

\* the local name dist of parse_mf5 before its first assignment
Unbound == [kind |-> "unbound"]

\* the branches of parse_mf5 on LF = params[3]: the value of dist after them;
\* no branch assigns it for another LF, so it keeps what it held
EnergyLaw(lines, params, p, dist) ==
    CASE params[4] = 1 -> ArbitraryTabulated(lines, p)
      [] params[4] = 5 -> GeneralEvaporation(lines, params, p)
      [] params[4] = 7 -> MaxwellEnergy(lines, params, p)
      [] params[4] = 9 -> Evaporation(lines, params, p)
      [] params[4] = 11 -> WattEnergy(lines, params, p)
      [] params[4] = 12 -> MadlandNix(lines, params, p)
      [] OTHER -> Returned(dist, p, 0)

RECURSIVE Subsections5(_, _, _)
\* the loop of parse_mf5 over the NK subsections; st.dist is the local name
\* dist, which lives across the turns, and reading it unbound raises
\* UnboundLocalError
Subsections5(lines, NK, st0) ==
    The({ IF st.exc # "none" \/ Len(st.list) >= NK THEN st
          ELSE The({ IF a.exc # "none" THEN Stop(st, a, a.exc)
                     ELSE The({ IF d.exc # "none" THEN Stop(Stop(st, a, "none"), d, d.exc)
                                ELSE IF d.val = Unbound
                                THEN Stop(Stop(st, a, "none"), d, "UnboundLocalError")
                                ELSE Subsections5(lines, NK,
                                         [Step(Stop(st, a, "none"), d,
                                               [LF |-> a.val[1][4], p |-> a.val[2],
                                                distribution |-> d.val])
                                          EXCEPT !.dist = d.val])
                                : d \in {EnergyLaw(lines, a.val[1], a.pos, st.dist)} })
                     : a \in {get_tab1_record(lines, st.pos)} })
          : st \in {st0} })

\* parse_mf5 of mf5.py
parse_mf5(lines, p) ==
    The({ IF h.exc # "none" THEN Warned(h, <<>>)
          ELSE The({ Warned(Finish(st, [kind |-> "dict", ZA |-> h.val[1],
                                        AWR |-> h.val[2], NK |-> h.val[5],
                                        subsections |-> st.list]),
                            <<>>)
                     : st \in {Subsections5(lines, h.val[5],
                                            Start(h) @@ [dist |-> Unbound])} })
          : h \in {get_head_record(lines, p)} })

---------------------------------------------------------------------------
(* parse_mf33_subsection of mf33.py: a covariance subsection of MF=33, also *)
(* used by MF=40                                                            *)

\* a // b, b # 0
FloorDiv(a, b) == IF b > 0 THEN a \div b ELSE (0 - a) \div (0 - b)

\* the sub-subsection built from the LIST record (items, values) in the NC
\* loop; values[0] and values[1] raise IndexError on fewer than two values
NCEntry(LTY, items, values) ==
    IF LTY = 0
    THEN [exc |-> "none", LTY |-> LTY, E1 |-> items[1], E2 |-> items[2], NCI |-> items[6],
          CI |-> Stride(values, 0, 2), XMTI |-> Stride(values, 1, 2)]
    ELSE IF Len(values) < 2 THEN [exc |-> "IndexError"]
    ELSE [exc |-> "none", LTY |-> LTY, E1 |-> items[1], E2 |-> items[2],
          MATS |-> items[3], MTS |-> items[4], NEI |-> items[6],
          XMFS |-> values[1], XLFSS |-> values[2],
          EI |-> Stride(values, 2, 2), WEI |-> Stride(values, 3, 2)]

\* the appends of one turn of the NC loop: the branch for LTY = 0 appends
\* subsub, and the statement after the if/else appends it on both paths
NCAppend(list, LTY, subsub) ==
    IF LTY = 0 THEN Append(Append(list, subsub), subsub) ELSE Append(list, subsub)

RECURSIVE NCSubsections(_, _, _)
\* the loop over the NC sub-subsections: a CONT record for LTY, then a LIST
\* record; st.n counts the turns
NCSubsections(lines, NC, st0) ==
    The({ IF st.exc # "none" \/ st.n >= NC THEN st
          ELSE The({ IF c.exc # "none" THEN Stop(st, c, c.exc)
                     ELSE The({ IF r.exc # "none"
                                THEN Stop(Stop(st, c, "none"), r, r.exc)
                                ELSE The({ IF e.exc # "none"
                                           THEN Stop(Stop(st, c, "none"), r, e.exc)
                                           ELSE NCSubsections(lines, NC,
                                                    [Stop(Stop(st, c, "none"), r, "none")
                                                     EXCEPT !.n = @ + 1,
                                                            !.list = NCAppend(@, c.val[4], e)])
                                           : e \in {NCEntry(c.val[4], r.val[1], r.val[2])} })
                                : r \in {get_list_record(lines, c.pos)} })
                     : c \in {get_cont_record(lines, st.pos, FALSE)} })
          : st \in {st0} })

\* the sub-subsection built from the LIST record (items, values) in the NI
\* loop, by the branch for its LB
NIEntry(items, values) ==
    LET LB == items[4]
        NT == items[5]
        N2 == items[6]
    IN  CASE 0 <= LB /\ LB <= 4 ->
                [exc |-> "none", LT |-> items[3], LB |-> LB, NT |-> NT, NP |-> N2,
                 Ek |-> Stride(PySlice(values, 0, NT - N2), 0, 2),
                 Fk |-> Stride(PySlice(values, 0, NT - N2), 1, 2),
                 El |-> Stride(PySlice(values, NT - N2, Len(values)), 0, 2),
                 Fl |-> Stride(PySlice(values, NT - N2, Len(values)), 1, 2)]
          [] LB = 5 ->
                [exc |-> "none", LS |-> items[3], LB |-> LB, NT |-> NT, NE |-> N2,
                 Ek |-> PySlice(values, 0, N2), Fkk |-> PySlice(values, N2, Len(values))]
          [] LB = 6 ->
                IF N2 = 0 THEN [exc |-> "ZeroDivisionError"]
                ELSE [exc |-> "none", LB |-> LB, NT |-> NT, NER |-> N2,
                      NEC |-> FloorDiv(NT - 1, N2),
                      ER |-> PySlice(values, 0, N2),
                      EC |-> PySlice(values, N2, N2 + FloorDiv(NT - 1, N2)),
                      Fkl |-> PySlice(values, N2 + FloorDiv(NT - 1, N2), Len(values))]
          [] LB \in {8, 9} ->
                [exc |-> "none", LT |-> items[3], LB |-> LB, NT |-> NT, NP |-> N2,
                 Ek |-> Stride(values, 0, 2), Fk |-> Stride(values, 1, 2)]

\* the look-ahead of the NI loop: pos = file_obj.tell(), a CONT record read,
\* file_obj.seek(pos); an exception of the read leaves the stream where the
\* read left it
LookAhead(lines, p) ==
    The({ IF c.exc # "none" THEN c ELSE [c EXCEPT !.pos = p]
          : c \in {get_cont_record(lines, p, FALSE)} })

RECURSIVE NISubsections(_, _, _)
\* the loop over the NI sub-subsections: the look-ahead for LB, then the LIST
\* record; another LB raises ValueError
NISubsections(lines, NI, st0) ==
    The({ IF st.exc # "none" \/ st.n >= NI THEN st
          ELSE The({ IF c.exc # "none" THEN Stop(st, c, c.exc)
                     ELSE IF ~(c.val[4] \in 0..6 \/ c.val[4] \in {8, 9})
                     THEN Stop(st, c, "ValueError")
                     ELSE The({ IF r.exc # "none"
                                THEN Stop(Stop(st, c, "none"), r, r.exc)
                                ELSE The({ IF e.exc # "none"
                                           THEN Stop(Stop(st, c, "none"), r, e.exc)
                                           ELSE NISubsections(lines, NI,
                                                    [Stop(Stop(st, c, "none"), r, "none")
                                                     EXCEPT !.n = @ + 1,
                                                            !.list = Append(@, e)])
                                           : e \in {NIEntry(r.val[1], r.val[2])} })
                                : r \in {get_list_record(lines, c.pos)} })
                     : c \in {LookAhead(lines, st.pos)} })
          : st \in {st0} })

\* parse_mf33_subsection
parse_mf33_subsection(lines, p) ==
    The({ IF h.exc # "none" THEN Warned(h, <<>>)
          ELSE The({ The({ Warned(Finish(ni, [kind |-> "dict", XMF1 |-> h.val[1],
                                              XLFS1 |-> h.val[2], MAT1 |-> h.val[3],
                                              MT1 |-> h.val[4], NC |-> h.val[5],
                                              NI |-> h.val[6],
                                              nc_subsections |-> nc.list,
                                              ni_subsections |-> ni.list]),
                                  <<>>)
                           : ni \in {NISubsections(lines, h.val[6],
                                         [nc EXCEPT !.n = 0, !.list = <<>>])} })
                     : nc \in {NCSubsections(lines, h.val[5],
                                             Start(h) @@ [n |-> 0])} })
          : h \in {get_cont_record(lines, p, FALSE)} })

---------------------------------------------------------------------------
(* parse_mf2 of mf2.py: the resonance parameters of MF=2, MT=151 *)

\* the item a loop over LIST records makes of the record (items, values);
\* values[k] raises IndexError beyond the end of values
ListEntry(form, items, values) ==
    CASE form = "MLBW" ->
            [exc |-> "none",
             val |-> [AWRI |-> items[1], QX |-> items[2], L |-> items[3], LRX |-> items[4],
                      NRS |-> items[6], ER |-> Stride(values, 0, 6),
                      AJ |-> Stride(values, 1, 6), GT |-> Stride(values, 2, 6),
                      GN |-> Stride(values, 3, 6), GG |-> Stride(values, 4, 6),
                      GF |-> Stride(values, 5, 6)]]
      [] form = "ReichMoore" ->
            [exc |-> "none",
             val |-> [AWRI |-> items[1], APL |-> items[2], L |-> items[3],
                      NRS |-> items[6], ER |-> Stride(values, 0, 6),
                      AJ |-> Stride(values, 1, 6), GN |-> Stride(values, 2, 6),
                      GG |-> Stride(values, 3, 6), GFA |-> Stride(values, 4, 6),
                      GFB |-> Stride(values, 5, 6)]]
      [] form = "A" ->
            [exc |-> "none",
             val |-> [AWRI |-> items[1], L |-> items[3], NJS |-> items[6],
                      D |-> Stride(values, 0, 6), AJ |-> Stride(values, 1, 6),
                      AMUN |-> Stride(values, 2, 6), GNO |-> Stride(values, 3, 6),
                      GG |-> Stride(values, 4, 6)]]
      [] form = "B" ->
            IF Len(values) < 5 THEN [exc |-> "IndexError"]
            ELSE [exc |-> "none",
                  val |-> [MUF |-> items[4], D |-> values[1], AJ |-> values[2],
                           AMUN |-> values[3], GN0 |-> values[4], GG |-> values[5],
                           GF |-> PySlice(values, 6, Len(values))]]
      [] form = "C" ->
            IF Len(values) < 6 THEN [exc |-> "IndexError"]
            ELSE [exc |-> "none",
                  val |-> [AJ |-> items[1], INT |-> items[3], NE |-> items[6],
                           AMUX |-> values[3], AMUN |-> values[4], AMUF |-> values[6],
                           E |-> Stride(values, 6, 6), D |-> Stride(values, 7, 6),
                           GX |-> Stride(values, 8, 6), GN0 |-> Stride(values, 9, 6),
                           GG |-> Stride(values, 10, 6), GF |-> Stride(values, 11, 6)]]

RECURSIVE ListLoop(_, _, _, _)
\* a loop of n turns, each reading one LIST record and appending its item
ListLoop(lines, n, st0, form) ==
    The({ IF st.exc # "none" \/ Len(st.list) >= n THEN st
          ELSE The({ IF r.exc # "none" THEN Stop(st, r, r.exc)
                     ELSE The({ IF e.exc # "none" THEN Stop(st, r, e.exc)
                                ELSE ListLoop(lines, n, Step(st, r, e.val), form)
                                : e \in {ListEntry(form, r.val[1], r.val[2])} })
                     : r \in {get_list_record(lines, st.pos)} })
          : st \in {st0} })

\* the read of the energy-dependent scattering radius, present for NRO # 0
ScatteringRadius(lines, NRO, p) ==
    IF NRO # 0 THEN get_tab1_record(lines, p) ELSE Returned(PyNone, p, 0)

\* data with data['APE'] of the read a where NRO # 0
WithAPE(data, NRO, a) == IF NRO # 0 THEN data @@ [APE |-> a.val[2]] ELSE data

\* MLBW.dict_from_endf, inherited by SLBW
MLBW(lines, NRO, p) ==
    The({ IF a.exc # "none" THEN a
          ELSE The({ IF c.exc # "none" THEN Following(a, c)
                     ELSE The({ Finish(st, WithAPE([kind |-> "dict", SPI |-> c.val[1],
                                                    AP |-> c.val[2], NLS |-> c.val[5],
                                                    sections |-> st.list], NRO, a))
                                : st \in {ListLoop(lines, c.val[5],
                                                   Start(Following(a, c)), "MLBW")} })
                     : c \in {get_cont_record(lines, a.pos, FALSE)} })
          : a \in {ScatteringRadius(lines, NRO, p)} })

\* ReichMoore.dict_from_endf
ReichMoore(lines, NRO, p) ==
    The({ IF a.exc # "none" THEN a
          ELSE The({ IF c.exc # "none" THEN Following(a, c)
                     ELSE The({ Finish(st, WithAPE([kind |-> "dict", SPI |-> c.val[1],
                                                    AP |-> c.val[2], LAD |-> c.val[3],
                                                    NLS |-> c.val[5], NLSC |-> c.val[6],
                                                    sections |-> st.list], NRO, a))
                                : st \in {ListLoop(lines, c.val[5],
                                                   Start(Following(a, c)), "ReichMoore")} })
                     : c \in {get_cont_record(lines, a.pos, FALSE)} })
          : a \in {ScatteringRadius(lines, NRO, p)} })

\* AdlerAdler.dict_from_endf
AdlerAdler(lines, NRO, p) == Raised("NotImplementedError", p, 0)

\* the particle-pair columns of RMatrixLimited
ParticlePairs(values) ==
    [MA |-> Stride(values, 0, 12), MB |-> Stride(values, 1, 12),
     ZA |-> Stride(values, 2, 12), ZB |-> Stride(values, 3, 12),
     IA |-> Stride(values, 4, 12), IB |-> Stride(values, 5, 12),
     Q |-> Stride(values, 6, 12), PNT |-> Stride(values, 7, 12),
     SHF |-> Stride(values, 8, 12), MT |-> Stride(values, 9, 12),
     PA |-> Stride(values, 10, 12), PB |-> Stride(values, 11, 12)]

\* values[::k], k # 0
PyStep(values, k) ==
    IF k > 0 THEN Stride(values, 0, k)
    ELSE [j \in 1..((Len(values) - k - 1) \div (0 - k)) |->
              values[Len(values) + (j - 1) * k]]

\* the slices appended to GAM, one per resonance
WidthRows(values, NRS, NCH) ==
    [j \in 1..NRS |-> PySlice(values, 1 + (NCH + 1) * (j - 1), (NCH + 1) * j)]

\* np.array(GAM).reshape(NRS, NCH) works: rows of one length (numpy raises
\* ValueError for ragged rows) whose items fill the shape
WidthsFit(rows, NRS, NCH) ==
    /\ \A i, j \in 1..Len(rows) : Len(rows[i]) = Len(rows[j])
    /\ CanReshape(IF rows = <<>> THEN 0 ELSE Len(rows) * Len(rows[1]), NRS, NCH)

\* GAM.T
Transposed(rows, NCH) ==
    [c \in 1..NCH |-> [j \in 1..Len(rows) |-> rows[j][c]]]

\* the optional background R-matrix of a spin group
Background(lines, KBK, p) ==
    IF KBK <= 0 THEN Returned([kind |-> "dict"], p, 0)
    ELSE The({ IF b.exc # "none" THEN b
               ELSE IF b.val[1][4] = 1
               THEN The({ IF t1.exc # "none" THEN t1
                          ELSE The({ IF t2.exc # "none" THEN t2
                                     ELSE Returned([kind |-> "dict", LCH |-> b.val[1][3],
                                                    LBK |-> b.val[1][4],
                                                    RBR |-> t1.val[2], RBI |-> t2.val[2]],
                                                   t2.pos, t2.missing)
                                     : t2 \in {Following(t1, get_tab1_record(lines, t1.pos))} })
                          : t1 \in {Following(b, get_tab1_record(lines, b.pos))} })
               ELSE IF b.val[1][4] \in {2, 3}
               THEN The({ IF l.exc # "none" THEN l
                          ELSE Returned([kind |-> "dict", LCH |-> b.val[1][3],
                                         LBK |-> b.val[1][4],
                                         ED |-> l.val[1][1], EU |-> l.val[1][2]],
                                        l.pos, l.missing)
                          : l \in {Following(b, get_list_record(lines, b.pos))} })
               ELSE Returned([kind |-> "dict", LCH |-> b.val[1][3], LBK |-> b.val[1][4]],
                             b.pos, b.missing)
               : b \in {get_list_record(lines, p)} })

\* the optional tabulated phase shifts of a spin group
PhaseShifts(lines, KPS, p) ==
    IF KPS <= 0 THEN Returned([kind |-> "dict"], p, 0)
    ELSE The({ IF b.exc # "none" THEN b
               ELSE IF b.val[1][5] = 1
               THEN The({ IF t1.exc # "none" THEN t1
                          ELSE The({ IF t2.exc # "none" THEN t2
                                     ELSE Returned([kind |-> "dict", LPS |-> b.val[1][5],
                                                    PSR |-> t1.val[2], PSI |-> t2.val[2]],
                                                   t2.pos, t2.missing)
                                     : t2 \in {Following(t1, get_tab1_record(lines, t1.pos))} })
                          : t1 \in {Following(b, get_tab1_record(lines, b.pos))} })
               ELSE Returned([kind |-> "dict", LPS |-> b.val[1][5]], b.pos, b.missing)
               : b \in {get_list_record(lines, p)} })

\* one turn of the loop over spin groups of RMatrixLimited: the channels, the
\* resonances, the optional extensions
SpinGroup(lines, p) ==
    The({ IF g.exc # "none" THEN g
          ELSE The({ IF w.exc # "none" THEN w
                     ELSE IF g.val[1][6] + 1 = 0 THEN Raised("ValueError", w.pos, w.missing)
                     ELSE IF ~WidthsFit(WidthRows(w.val[2], w.val[1][4], g.val[1][6]),
                                        w.val[1][4], g.val[1][6])
                     THEN Raised("ValueError", w.pos, w.missing)
                     ELSE The({ IF bk.exc # "none" THEN bk
                                ELSE The({ IF ps.exc # "none" THEN ps
                                           ELSE Returned(
                                               [kind |-> "dict", AJ |-> g.val[1][1],
                                                PJ |-> g.val[1][2], KBK |-> g.val[1][3],
                                                KPS |-> g.val[1][4], NCH |-> g.val[1][6],
                                                channels |->
                                                    [PPI |-> Stride(g.val[2], 0, 6),
                                                     L |-> Stride(g.val[2], 1, 6),
                                                     SCH |-> Stride(g.val[2], 2, 6),
                                                     BND |-> Stride(g.val[2], 3, 6),
                                                     APE |-> Stride(g.val[2], 4, 6),
                                                     APT |-> Stride(g.val[2], 5, 6)],
                                                NRS |-> w.val[1][4], NX |-> w.val[1][6],
                                                ER |-> PyStep(w.val[2], g.val[1][6] + 1),
                                                GAM |-> Transposed(
                                                    WidthRows(w.val[2], w.val[1][4],
                                                              g.val[1][6]),
                                                    g.val[1][6])]
                                                   @@ bk.val @@ ps.val,
                                               ps.pos, ps.missing)
                                           : ps \in {Following(bk,
                                                 PhaseShifts(lines, g.val[1][4], bk.pos))} })
                                : bk \in {Following(w,
                                      Background(lines, g.val[1][3], w.pos))} })
                     : w \in {Following(g, get_list_record(lines, g.pos))} })
          : g \in {get_list_record(lines, p)} })

RECURSIVE SpinGroups(_, _, _)
\* the loop over the NJS spin groups
SpinGroups(lines, NJS, st0) ==
    The({ IF st.exc # "none" \/ Len(st.list) >= NJS THEN st
          ELSE The({ IF r.exc # "none" THEN Stop(st, r, r.exc)
                     ELSE SpinGroups(lines, NJS, Step(st, r, r.val))
                     : r \in {SpinGroup(lines, st.pos)} })
          : st \in {st0} })

\* RMatrixLimited.dict_from_endf
RMatrixLimited(lines, NRO, p) ==
    The({ IF c.exc # "none" THEN c
          ELSE The({ IF l.exc # "none" THEN Following(c, l)
                     ELSE The({ Finish(st, [kind |-> "dict", IFG |-> c.val[3],
                                            KRM |-> c.val[4], NJS |-> c.val[5],
                                            KRL |-> c.val[6], NPP |-> l.val[1][3],
                                            particle_pairs |-> ParticlePairs(l.val[2]),
                                            spin_groups |-> st.list])
                                : st \in {SpinGroups(lines, c.val[5],
                                                     Start(Following(c, l)))} })
                     : l \in {get_list_record(lines, c.pos)} })
          : c \in {get_cont_record(lines, p, FALSE)} })

RECURSIVE UnresolvedRanges(_, _, _, _)
\* the loop over NLS of the cases B and C of Unresolved: a CONT record, then
\* NJS LIST records
UnresolvedRanges(lines, NLS, st0, form) ==
    The({ IF st.exc # "none" \/ Len(st.list) >= NLS THEN st
          ELSE The({ IF c.exc # "none" THEN Stop(st, c, c.exc)
                     ELSE The({ IF js.exc # "none"
                                THEN [st EXCEPT !.pos = js.pos, !.missing = js.missing,
                                                !.exc = js.exc]
                                ELSE UnresolvedRanges(lines, NLS,
                                         [st EXCEPT !.pos = js.pos, !.missing = js.missing,
                                                    !.list = Append(@,
                                                        [AWRI |-> c.val[1], L |-> c.val[3],
                                                         NJS |-> c.val[5],
                                                         parameters |-> js.list])],
                                         form)
                                : js \in {ListLoop(lines, c.val[5],
                                              [Stop(st, c, "none") EXCEPT !.list = <<>>],
                                              form)} })
                     : c \in {get_cont_record(lines, st.pos, FALSE)} })
          : st \in {st0} })

\* Unresolved.dict_from_endf: case A for LFW = 0 and LRF = 1, case B for
\* LFW = 1 and LRF = 1, case C for LRF = 2
Unresolved(lines, LFW, LRF, NRO, p) ==
    The({ IF a.exc # "none" THEN a
          ELSE The({ IF h.exc # "none" THEN h
                     ELSE IF LFW = 0 /\ LRF = 1
                     THEN The({ Finish(st, [ranges |-> st.list] @@ d)
                                : st \in {ListLoop(lines, h.val[5], Start(h), "A")},
                                  d \in {WithAPE([kind |-> "dict", SPI |-> h.val[1],
                                                  AP |-> h.val[2], LSSF |-> h.val[3],
                                                  NLS |-> h.val[5]], NRO, a)} })
                     ELSE IF LFW = 1 /\ LRF = 1
                     THEN The({ IF l.exc # "none" THEN l
                                ELSE The({ Finish(st, WithAPE(
                                               [kind |-> "dict", SPI |-> l.val[1][1],
                                                AP |-> l.val[1][2], LSSF |-> l.val[1][3],
                                                NE |-> l.val[1][5], NLS |-> l.val[1][6],
                                                ES |-> l.val[2], ranges |-> st.list],
                                               NRO, a))
                                           : st \in {UnresolvedRanges(lines, l.val[1][6],
                                                                      Start(l), "B")} })
                                : l \in {Following(h, get_list_record(lines, h.pos))} })
                     ELSE IF LRF = 2
                     THEN The({ Finish(st, [ranges |-> st.list] @@ d)
                                : st \in {UnresolvedRanges(lines, h.val[5], Start(h), "C")},
                                  d \in {WithAPE([kind |-> "dict", SPI |-> h.val[1],
                                                  AP |-> h.val[2], LSSF |-> h.val[3],
                                                  NLS |-> h.val[5]], NRO, a)} })
                     ELSE Returned(WithAPE([kind |-> "dict", SPI |-> h.val[1],
                                            AP |-> h.val[2], LSSF |-> h.val[3],
                                            NLS |-> h.val[5]], NRO, a),
                                   h.pos, h.missing)
                     : h \in {IF LFW = 1 /\ LRF = 1 THEN a
                              ELSE Following(a, get_cont_record(lines, a.pos, FALSE))} })
          : a \in {ScatteringRadius(lines, NRO, p)} })

\* _FORMALISMS[LRF].dict_from_endf(file_obj, NRO)
FORMALISMS(lines, LRF, NRO, p) ==
    CASE LRF \in {1, 2} -> MLBW(lines, NRO, p)
      [] LRF = 3 -> ReichMoore(lines, NRO, p)
      [] LRF = 4 -> AdlerAdler(lines, NRO, p)
      [] LRF = 7 -> RMatrixLimited(lines, NRO, p)
      [] OTHER -> Raised("KeyError", p, 0)

\* the parameters parse_mf2 reads after the header of a range: a range with
\* LRF # 0 whose LRU is neither 0 nor 1 is read as unresolved for LRF = 2 only,
\* and is left without parameters for another LRF
RangeParameters(lines, LFW, LRU, LRF, NRO, p) ==
    IF LRF = 0
    THEN The({ IF c.exc # "none" THEN c
               ELSE Returned([kind |-> "dict", SPI |-> c.val[1], AP |-> c.val[2],
                              NLS |-> c.val[5]], c.pos, c.missing)
               : c \in {get_cont_record(lines, p, FALSE)} })
    ELSE IF LRU \in {0, 1} THEN FORMALISMS(lines, LRF, NRO, p)
    ELSE IF LRF = 2 THEN Unresolved(lines, LFW, LRF, NRO, p)
    ELSE Returned([kind |-> "dict"], p, 0)

\* one turn of the loop over the ranges of an isotope
Range(lines, LFW, p) ==
    The({ IF c.exc # "none" THEN c
          ELSE The({ IF r.exc # "none" THEN r
                     ELSE Returned(r.val @@ [kind |-> "dict", EL |-> c.val[1],
                                             EH |-> c.val[2], LRU |-> c.val[3],
                                             LRF |-> c.val[4], NRO |-> c.val[5],
                                             NAPS |-> c.val[6]],
                                   r.pos, r.missing)
                     : r \in {Following(c, RangeParameters(lines, LFW, c.val[3], c.val[4],
                                                          c.val[5], c.pos))} })
          : c \in {get_cont_record(lines, p, FALSE)} })

RECURSIVE Ranges(_, _, _, _)
\* the loop over the NER ranges of an isotope
Ranges(lines, LFW, NER, st0) ==
    The({ IF st.exc # "none" \/ Len(st.list) >= NER THEN st
          ELSE The({ IF r.exc # "none" THEN Stop(st, r, r.exc)
                     ELSE Ranges(lines, LFW, NER, Step(st, r, r.val))
                     : r \in {Range(lines, LFW, st.pos)} })
          : st \in {st0} })

\* one turn of the loop over isotopes
Isotope(lines, p) ==
    The({ IF c.exc # "none" THEN c
          ELSE The({ Finish(st, [kind |-> "dict", ZAI |-> c.val[1], ABN |-> c.val[2],
                                 LFW |-> c.val[4], NER |-> c.val[5],
                                 ranges |-> st.list])
                     : st \in {Ranges(lines, c.val[4], c.val[5], Start(c))} })
          : c \in {get_cont_record(lines, p, FALSE)} })

RECURSIVE Isotopes(_, _, _)
\* the loop over the NIS isotopes
Isotopes(lines, NIS, st0) ==
    The({ IF st.exc # "none" \/ Len(st.list) >= NIS THEN st
          ELSE The({ IF r.exc # "none" THEN Stop(st, r, r.exc)
                     ELSE Isotopes(lines, NIS, Step(st, r, r.val))
                     : r \in {Isotope(lines, st.pos)} })
          : st \in {st0} })

\* parse_mf2
parse_mf2(lines, p) ==
    The({ IF h.exc # "none" THEN Warned(h, <<>>)
          ELSE The({ Warned(Finish(st, [kind |-> "dict", ZA |-> h.val[1],
                                        AWR |-> h.val[2], NIS |-> h.val[5],
                                        isotopes |-> st.list]),
                            <<>>)
                     : st \in {Isotopes(lines, h.val[5], Start(h))} })
          : h \in {get_head_record(lines, p)} })

---------------------------------------------------------------------------
(* The section parsers on their own: one section, one call of its parser.   *)
(* `arg` names the parser and what was written on the stream.               *)

MaxProducts == 2    \* products, subsections or ranges written in one section
MaxEnergies == 2    \* incident energies written in one distribution

\* str(n) for -99 <= n <= 99
NatStr(n) ==
    IF n < 10 THEN <<Digits[n + 1]>> ELSE <<Digits[(n \div 10) + 1], Digits[(n % 10) + 1]>>

IntStr(n) == IF n < 0 THEN <<"-">> \o NatStr(0 - n) ELSE NatStr(n)

\* a TAB1 record of one region and the two points (1, 1) and (2, 3)
Tab1Block(c1, c2, l1, l2) ==
    << Record(c1, c2, l1, l2, <<"1">>, <<"2">>),
       Record(<<"2">>, <<"2">>, <<>>, <<>>, <<>>, <<>>),
       Record(<<"1">>, <<"1">>, <<"2">>, <<"3">>, <<>>, <<>>) >>

\* a TAB2 record of one region for n curves
Tab2Block(c2, n) ==
    << Record(<<"0">>, c2, <<"0">>, <<"0">>, <<"1">>, IntStr(n)),
       Record(IntStr(n), <<"2">>, <<>>, <<>>, <<>>, <<>>) >>

\* a LIST record of the two items 4 and 5, with 1 in its last header field
ListBlock(c2) ==
    << Record(<<"0">>, c2, <<"0">>, <<"0">>, <<"2">>, <<"1">>),
       Record(<<"4">>, <<"5">>, <<>>, <<>>, <<>>, <<>>) >>

\* the records of a product's distribution in MF=6, for NE incident energies
DistributionBlock6(LAW, NE) ==
    CASE LAW \in {1, 2, 5} ->
            Tab2Block(<<"0">>, NE) \o Flatten([i \in 1..NE |-> ListBlock(IntStr(i))])
      [] LAW = 6 -> <<LineOnes>>
      [] LAW = 7 ->
            Tab2Block(<<"0">>, NE)
                \o Flatten([i \in 1..NE |->
                       Tab2Block(IntStr(i), 1)
                           \o Tab1Block(<<"0">>, <<"1">>, <<"0">>, <<"0">>)])
      [] OTHER -> <<>>

\* a section of MF=6: the HEAD record, then every product's yield and
\* distribution
Tape6(laws, NE) ==
    << Record(<<"1">>, <<"1">>, <<"0">>, <<"1">>, IntStr(Len(laws)), <<>>) >>
        \o Flatten([i \in 1..Len(laws) |->
               Tab1Block(<<"1">>, <<"1">>, <<"0">>, IntStr(laws[i]))
                   \o DistributionBlock6(laws[i], NE)])

\* the records of a product's distribution in MF=26
DistributionBlock26(LAW, NE) ==
    CASE LAW \in {1, 2} -> DistributionBlock6(LAW, NE)
      [] LAW = 8 -> Tab1Block(<<"0">>, <<"0">>, <<"0">>, <<"0">>)
      [] OTHER -> <<>>

Tape26(laws, NE) ==
    << Record(<<"1">>, <<"1">>, <<"0">>, <<"0">>, IntStr(Len(laws)), <<>>) >>
        \o Flatten([i \in 1..Len(laws) |->
               Tab1Block(<<"1">>, <<"1">>, <<"0">>, IntStr(laws[i]))
                   \o DistributionBlock26(laws[i], NE)])

\* a section of MF=12: NK multiplicities after the total yield (LO = 1), NK
\* transitions of LG + 1 numbers each in one LIST record (LO = 2), or the HEAD
\* record alone
Tape12(LO, LG, NK) ==
    << Record(<<"1">>, <<"1">>, IntStr(LO), IntStr(LG), IntStr(NK), <<>>) >>
        \o CASE LO = 1 ->
                   (IF NK > 1 THEN Tab1Block(<<"0">>, <<"0">>, <<"0">>, <<"0">>) ELSE <<>>)
                       \o Flatten([i \in 1..NK |->
                              Tab1Block(IntStr(i), <<"0">>, <<"0">>, <<"2">>)])
             [] LO = 2 ->
                   << Record(<<"9">>, <<"0">>, <<"0">>, <<"0">>,
                             IntStr((LG + 1) * NK), IntStr(NK)),
                      Record(<<"1">>, <<"2">>, <<"3">>, <<"4">>, <<"5">>, <<"6">>) >>
             [] OTHER -> <<>>

\* the stream without its last n lines
Cut(t, n) == SubSeq(t, 1, Len(t) - n)

LawsUpTo(S, n) == UNION { [1..k -> S] : k \in 1..n }

Laws6 == {0 - 1, 0, 1, 2, 3, 4, 5, 6, 7, 8}

Laws26 == {0, 1, 2, 8, 9}

ProductCalls(parser, S) ==
    [parser : {parser}, laws : LawsUpTo(S, MaxProducts), NE : 1..MaxEnergies, cut : {0, 1}]

MF12Calls ==
    [parser : {"parse_mf12"}, LO : 0..3, LG : 0..2, NK : 1..MaxProducts, cut : {0, 1}]

\* the records of a subsection's distribution in MF=5
DistributionBlock5(LF, NE) ==
    CASE LF = 1 ->
            Tab2Block(<<"0">>, NE)
                \o Flatten([j \in 1..NE |-> Tab1Block(<<"0">>, IntStr(j), <<"0">>, <<"0">>)])
      [] LF \in {5, 11} ->
            Tab1Block(<<"0">>, <<"0">>, <<"0">>, <<"0">>)
                \o Tab1Block(<<"0">>, <<"0">>, <<"0">>, <<"0">>)
      [] LF \in {7, 9, 12} -> Tab1Block(<<"0">>, <<"0">>, <<"0">>, <<"0">>)
      [] OTHER -> <<>>

\* a section of MF=5: the HEAD record, then every subsection's applicability
\* (its first header field is the number of the subsection) and distribution
Tape5(lfs, NE) ==
    << Record(<<"1">>, <<"1">>, <<"0">>, <<"0">>, IntStr(Len(lfs)), <<>>) >>
        \o Flatten([i \in 1..Len(lfs) |->
               Tab1Block(IntStr(i), <<"7">>, <<"0">>, IntStr(lfs[i]))
                   \o DistributionBlock5(lfs[i], NE)])

LFs5 == {0, 1, 2, 5, 7, 9, 11, 12}

MF5Calls ==
    [parser : {"parse_mf5"}, lfs : LawsUpTo(LFs5, MaxProducts), NE : 1..MaxEnergies,
     cut : {0, 1}]

\* a LIST record of n1 items, lines of 1, 2, 3, 4, 5, 6
ListOf(l1, l2, n1, n2) ==
    << Record(<<"0">>, <<"0">>, IntStr(l1), IntStr(l2), IntStr(n1), IntStr(n2)) >>
        \o [k \in 1..((n1 + 5) \div 6) |->
                Record(<<"1">>, <<"2">>, <<"3">>, <<"4">>, <<"5">>, <<"6">>)]

\* the records of an NC sub-subsection: LTY = 0 with one pair (CI, XMTI),
\* another LTY with one pair (EI, WEI) after XMFS and XLFSS
BlockNC(LTY) ==
    << Record(<<"0">>, <<"0">>, <<"0">>, IntStr(LTY), <<"0">>, <<"0">>) >>
        \o (IF LTY = 0 THEN ListOf(0, 0, 2, 1) ELSE ListOf(0, 1, 4, 1))

\* the LIST record of the NI sub-subsection number i: LB in 0..4, 8, 9 with two
\* pairs, LB = 5 with two energies and one matrix element, LB = 6 with two row
\* energies, two column energies and one matrix element
BlockNI(LB, i) ==
    CASE LB = 5 -> ListOf(i, LB, 3, 2)
      [] LB = 6 -> ListOf(i, LB, 5, 2)
      [] OTHER -> ListOf(i, LB, 4, 2)

\* a subsection of MF=33
Tape33(ltys, lbs) ==
    << Record(<<"0">>, <<"0">>, <<"0">>, <<"1">>, IntStr(Len(ltys)), IntStr(Len(lbs))) >>
        \o Flatten([i \in 1..Len(ltys) |-> BlockNC(ltys[i])])
        \o Flatten([i \in 1..Len(lbs) |-> BlockNI(lbs[i], i)])

LTYs == {0, 1, 2}

LBs == {0, 4, 5, 6, 7, 8, 9}

MF33Calls ==
    [parser : {"parse_mf33_subsection"}, ltys : {<<>>} \cup LawsUpTo(LTYs, MaxProducts),
     lbs : {<<>>} \cup LawsUpTo(LBs, MaxProducts), cut : {0, 1}]

\* the kinds of range written, as (LRU, LRF)
RangeKinds ==
    { <<0, 0>>, <<1, 1>>, <<1, 2>>, <<1, 3>>, <<1, 4>>, <<1, 7>>, <<2, 1>>, <<2, 2>> }

\* the parameter records of a range as ENDF-6 lays them out for (LRU, LRF),
\* each loop with one turn
ParameterBlock(LRU, LRF, LFW) ==
    CASE LRU \in {0, 1} /\ LRF \in {1, 2, 3, 4} ->
            << Record(<<"0">>, <<"1">>, <<"0">>, <<"0">>, <<"1">>, <<"0">>) >>
                \o ListOf(0, 0, 6, 1)
      [] LRU \in {0, 1} /\ LRF = 7 ->
            << Record(<<"0">>, <<"0">>, <<"0">>, <<"1">>, <<"1">>, <<"0">>) >>
                \o ListOf(1, 0, 12, 2) \o ListOf(0, 0, 6, 1) \o ListOf(0, 1, 6, 1)
      [] LRU = 2 /\ LRF = 1 /\ LFW = 0 ->
            << Record(<<"0">>, <<"1">>, <<"0">>, <<"0">>, <<"1">>, <<"0">>) >>
                \o ListOf(0, 0, 6, 1)
      [] LRU = 2 /\ LRF = 1 /\ LFW = 1 ->
            ListOf(0, 0, 1, 1)
                \o << Record(<<"0">>, <<"0">>, <<"0">>, <<"0">>, <<"1">>, <<"0">>) >>
                \o ListOf(0, 0, 7, 0)
      [] LRU = 2 /\ LRF = 2 ->
            << Record(<<"0">>, <<"1">>, <<"0">>, <<"0">>, <<"1">>, <<"0">>),
               Record(<<"0">>, <<"0">>, <<"0">>, <<"0">>, <<"1">>, <<"0">>) >>
                \o ListOf(0, 0, 12, 1)

\* the records of the range number i: its header with EL = i, then the
\* scattering radius for NRO # 0 and its parameters
RangeBlock(i, LRU, LRF, LFW, NRO) ==
    IF LRF = 0
    THEN << Record(IntStr(i), <<"9">>, IntStr(LRU), <<"0">>, <<"0">>, <<"0">>),
            Record(<<"0">>, <<"1">>, <<"0">>, <<"0">>, <<"0">>, <<"0">>) >>
    ELSE IF LRF = 7
    THEN << Record(IntStr(i), <<"9">>, IntStr(LRU), IntStr(LRF), <<"0">>, <<"0">>) >>
             \o ParameterBlock(LRU, LRF, LFW)
    ELSE << Record(IntStr(i), <<"9">>, IntStr(LRU), IntStr(LRF), IntStr(NRO), <<"0">>) >>
             \o (IF NRO # 0 THEN Tab1Block(<<"0">>, <<"0">>, <<"0">>, <<"0">>) ELSE <<>>)
             \o ParameterBlock(LRU, LRF, LFW)

\* a section of MF=2 with one isotope
Tape2(ranges, LFW, NRO) ==
    << Record(<<"1">>, <<"1">>, <<"0">>, <<"0">>, <<"1">>, <<"0">>),
       Record(<<"1">>, <<"1">>, <<"0">>, IntStr(LFW), IntStr(Len(ranges)), <<"0">>) >>
        \o Flatten([i \in 1..Len(ranges) |->
               RangeBlock(i, ranges[i][1], ranges[i][2], LFW, NRO)])

MF2Calls ==
    [parser : {"parse_mf2"}, ranges : LawsUpTo(RangeKinds, MaxProducts),
     LFW : {0, 1}, NRO : {0, 1}, cut : {0, 1}]

\* the stream written for a call
TapeOf(a) ==
    CASE a.parser = "parse_mf6" -> Cut(Tape6(a.laws, a.NE), a.cut)
      [] a.parser = "parse_mf26" -> Cut(Tape26(a.laws, a.NE), a.cut)
      [] a.parser = "parse_mf12" -> Cut(Tape12(a.LO, a.LG, a.NK), a.cut)
      [] a.parser = "parse_mf5" -> Cut(Tape5(a.lfs, a.NE), a.cut)
      [] a.parser = "parse_mf33_subsection" -> Cut(Tape33(a.ltys, a.lbs), a.cut)
      [] a.parser = "parse_mf2" -> Cut(Tape2(a.ranges, a.LFW, a.NRO), a.cut)

InitParsers ==
    /\ \/ arg \in ProductCalls("parse_mf6", Laws6)
       \/ arg \in ProductCalls("parse_mf26", Laws26)
       \/ arg \in MF12Calls
       \/ arg \in MF5Calls
       \/ arg \in MF33Calls
       \/ arg \in MF2Calls
    /\ tape = TapeOf(arg)
    /\ pos = 0
    /\ phase = "call"
    /\ out = <<>>
    /\ mat = NoMaterial("none", 0)
    /\ materials = <<>>
    /\ ret = NoRet
    /\ nset = 0

\* One call of the parser on its section; the stream is left where the parser
\* left it.
CallParseMF6 ==
    /\ phase = "call"
    /\ arg.parser = "parse_mf6"
    /\ out' = parse_mf6(tape, pos)
    /\ pos' = out'.pos
    /\ phase' = "parse_mf6"
    /\ UNCHANGED <<arg, tape, mat, materials, ret, nset>>

CallParseMF26 ==
    /\ phase = "call"
    /\ arg.parser = "parse_mf26"
    /\ out' = parse_mf26(tape, pos)
    /\ pos' = out'.pos
    /\ phase' = "parse_mf26"
    /\ UNCHANGED <<arg, tape, mat, materials, ret, nset>>

CallParseMF12 ==
    /\ phase = "call"
    /\ arg.parser = "parse_mf12"
    /\ out' = parse_mf12(tape, pos)
    /\ pos' = out'.pos
    /\ phase' = "parse_mf12"
    /\ UNCHANGED <<arg, tape, mat, materials, ret, nset>>

CallParseMF5 ==
    /\ phase = "call"
    /\ arg.parser = "parse_mf5"
    /\ out' = parse_mf5(tape, pos)
    /\ pos' = out'.pos
    /\ phase' = "parse_mf5"
    /\ UNCHANGED <<arg, tape, mat, materials, ret, nset>>

CallParseMF33Subsection ==
    /\ phase = "call"
    /\ arg.parser = "parse_mf33_subsection"
    /\ out' = parse_mf33_subsection(tape, pos)
    /\ pos' = out'.pos
    /\ phase' = "parse_mf33_subsection"
    /\ UNCHANGED <<arg, tape, mat, materials, ret, nset>>

CallParseMF2 ==
    /\ phase = "call"
    /\ arg.parser = "parse_mf2"
    /\ out' = parse_mf2(tape, pos)
    /\ pos' = out'.pos
    /\ phase' = "parse_mf2"
    /\ UNCHANGED <<arg, tape, mat, materials, ret, nset>>

NextParsers ==
    \/ CallParseMF6
    \/ CallParseMF26
    \/ CallParseMF12
    \/ CallParseMF5
    \/ CallParseMF33Subsection
    \/ CallParseMF2

SpecParsers == InitParsers /\ [][NextParsers]_vars

---------------------------------------------------------------------------
(* Unrecognized LAW and LO values *)

\* the values no branch of the parser names
UnrecognizedLaw(parser, LAW) ==
    IF parser = "parse_mf6" THEN LAW > 7 ELSE LAW \notin {1, 2, 8}

UnrecognizedProducts == { i \in 1..Len(arg.laws) : UnrecognizedLaw(arg.parser, arg.laws[i]) }

\* a whole section of products, one of them of an unrecognized LAW, was parsed
ParsedUnrecognizedLaw ==
    /\ phase \in {"parse_mf6", "parse_mf26"}
    /\ arg.cut = 0
    /\ UnrecognizedProducts # {}

\* a whole section of MF=12 of an unrecognized LO was parsed
ParsedUnrecognizedLO == phase = "parse_mf12" /\ arg.cut = 0 /\ arg.LO \notin {1, 2}

\* every product was parsed and those of an unrecognized LAW have no
\* distribution
ProductsSkipped ==
    /\ out.exc = "none"
    /\ Len(out.val.products) = Len(arg.laws)
    /\ \A i \in 1..Len(arg.laws) :
          /\ out.val.products[i].LAW = arg.laws[i]
          /\ i \in UnrecognizedProducts => "distribution" \notin DOMAIN out.val.products[i]

\* the section was parsed and holds neither multiplicities nor transitions
SectionSkipped ==
    /\ out.exc = "none"
    /\ out.pos = Len(tape)
    /\ DOMAIN out.val \cap {"multiplicities", "transitions", "Y"} = {}

\* one warning for every product of an unrecognized LAW
ProductsWarned ==
    /\ Len(out.warnings) = Cardinality(UnrecognizedProducts)
    /\ \A i \in UnrecognizedProducts :
          \E j \in 1..Len(out.warnings) : out.warnings[j] = Warning("LAW", arg.laws[i])

\* C21 as stated: a product of an unrecognized LAW in MF=6 or MF=26 and a
\* section of an unrecognized LO in MF=12 cause a warning, get no distribution
\* data and do not stop the parsing: no exception is raised and the remaining
\* products are parsed.
C21_UnrecognizedWarns ==
    /\ ParsedUnrecognizedLaw => ProductsSkipped /\ ProductsWarned
    /\ ParsedUnrecognizedLO => SectionSkipped /\ out.warnings = <<Warning("LO", arg.LO)>>

\* what holds of C21 in the code: the unrecognized value is skipped everywhere,
\* and warned about in MF=26 and MF=12
UnrecognizedSkipped ==
    /\ ParsedUnrecognizedLaw => ProductsSkipped
    /\ ParsedUnrecognizedLaw /\ phase = "parse_mf26" => ProductsWarned
    /\ ParsedUnrecognizedLO => SectionSkipped /\ out.warnings = <<Warning("LO", arg.LO)>>

\* parse_mf6 emits no warning, whatever the LAW values
MF6NeverWarns == phase = "parse_mf6" => out.warnings = <<>>

\* a section of MF=6 whose one product has LAW = 8 was parsed without a warning
MF6OfUnrecognizedLaw ==
    /\ phase = "parse_mf6"
    /\ arg.laws = <<8>>
    /\ arg.cut = 0
    /\ out.exc = "none"
    /\ out.warnings = <<>>

\* a section of MF=26 with a product of LAW = 9 before one of LAW = 8 was
\* parsed: one warning, both products, the second with its distribution
MF26OfUnrecognizedLaw ==
    /\ phase = "parse_mf26"
    /\ arg.laws = <<9, 8>>
    /\ arg.cut = 0
    /\ out.warnings = <<Warning("LAW", 9)>>
    /\ "distribution" \in DOMAIN out.val.products[2]

---------------------------------------------------------------------------
(* Discrete two-body scattering, LAW = 2 *)

TwoBodyProducts == { i \in 1..Len(arg.laws) : arg.laws[i] = 2 }

\* a whole section of MF=6 or MF=26 with a product of LAW = 2 was parsed
ParsedTwoBody ==
    /\ phase \in {"parse_mf6", "parse_mf26"}
    /\ arg.cut = 0
    /\ TwoBodyProducts # {}

\* the mapping the claim describes, for the records written by ListBlock: NR,
\* NE, the interpolation metadata, the incident energies 1..NE and one entry
\* with its coefficients 4, 5 per incident energy
IsTwoBodyMapping(d, NE) ==
    /\ d.kind = "dict"
    /\ d.NR = 1
    /\ d.NE = NE
    /\ d.E_int = Tabulated2D(<<NE>>, <<2>>)
    /\ d.E = [i \in 1..NE |-> Float(i, 0)]
    /\ Len(d.distribution) = NE
    /\ \A i \in 1..NE :
          /\ d.distribution[i].NW = 2
          /\ d.distribution[i].NL = 1
          /\ d.distribution[i].A_l = <<Float(4, 0), Float(5, 0)>>

\* C29 as stated: the distribution of every product with LAW = 2 is a mapping
\* that holds NR, NE, the interpolation metadata, the NE incident energies and
\* one decoded entry with its coefficients per incident energy, and one TAB2
\* record and NE LIST records were consumed for it.
C29_TwoBodyAsStated ==
    ParsedTwoBody =>
        /\ out.exc = "none"
        /\ out.pos = Len(tape)
        /\ \A i \in TwoBodyProducts :
              /\ "distribution" \in DOMAIN out.val.products[i]
              /\ IsTwoBodyMapping(out.val.products[i].distribution, arg.NE)

\* what holds of C29 in the code: the records are consumed and the product's
\* 'distribution' is None
TwoBodyIsNone ==
    ParsedTwoBody =>
        /\ out.exc = "none"
        /\ out.pos = Len(tape)
        /\ \A i \in TwoBodyProducts : out.val.products[i].distribution = PyNone

\* a section of MF=6 whose one product has LAW = 2 and two incident energies
\* was parsed
MF6OfTwoBody ==
    /\ phase = "parse_mf6"
    /\ arg.laws = <<2>>
    /\ arg.NE = 2
    /\ arg.cut = 0
    /\ out.exc = "none"
    /\ out.val.products[1].distribution = PyNone

---------------------------------------------------------------------------
(* The distributions of MF=5 *)

\* the six families
KnownLF == {1, 5, 7, 9, 11, 12}

\* what a TAB1 record written by Tab1Block decodes to
BlockFunction ==
    Tabulated1D(<<Float(1, 0), Float(2, 0)>>, <<Float(1, 0), Float(3, 0)>>,
                Given(<<2>>), Given(<<2>>))

\* the distribution written for subsection i of family LF
WrittenLaw(LF, i, NE) ==
    CASE LF = 1 -> [kind |-> "dict", E_int |-> Tabulated2D(<<NE>>, <<2>>),
                    E |-> [j \in 1..NE |-> Float(j, 0)],
                    g |-> [j \in 1..NE |-> BlockFunction]]
      [] LF = 5 -> [kind |-> "dict", U |-> Float(i, 0), theta |-> BlockFunction,
                    g |-> BlockFunction]
      [] LF \in {7, 9} -> [kind |-> "dict", U |-> Float(i, 0), theta |-> BlockFunction]
      [] LF = 11 -> [kind |-> "dict", U |-> Float(i, 0), a |-> BlockFunction,
                     b |-> BlockFunction]
      [] LF = 12 -> [kind |-> "dict", EFL |-> Float(i, 0), EFH |-> Float(7, 0),
                     T_M |-> BlockFunction]

\* a whole section of MF=5 was parsed and parse_mf5 returned
ParsedMF5 == phase = "parse_mf5" /\ arg.cut = 0 /\ out.exc = "none"

\* every subsection of one of the six families holds the distribution written
\* after its own applicability
OwnDistribution ==
    ParsedMF5 =>
        /\ Len(out.val.subsections) = Len(arg.lfs)
        /\ \A i \in 1..Len(arg.lfs) :
              arg.lfs[i] \in KnownLF =>
                  out.val.subsections[i].distribution = WrittenLaw(arg.lfs[i], i, arg.NE)

\* no subsection of another LF holds the distribution of an earlier subsection
NoneFromEarlier ==
    ParsedMF5 =>
        \A i \in 1..Len(arg.lfs) :
            arg.lfs[i] \notin KnownLF =>
                \A j \in 1..(i - 1) :
                    \/ "distribution" \notin DOMAIN out.val.subsections[i]
                    \/ out.val.subsections[i].distribution
                           # out.val.subsections[j].distribution

\* C28 as stated: each subsection of MF=5 gets the distribution decoded from
\* the records after its own applicability by the reader of its own LF, and a
\* subsection whose LF is not one of the six never receives the distribution
\* decoded for an earlier subsection.
C28_OwnDistribution == OwnDistribution /\ NoneFromEarlier

\* what the code does for an LF that is not one of the six: the first
\* subsection raises UnboundLocalError, a later one holds the distribution of
\* the subsection before it
DistributionOfEarlier ==
    (phase = "parse_mf5" /\ arg.cut = 0) =>
        /\ arg.lfs[1] \notin KnownLF => out.exc = "UnboundLocalError"
        /\ (Len(arg.lfs) = 2 /\ arg.lfs[1] \in KnownLF /\ arg.lfs[2] \notin KnownLF) =>
              /\ out.exc = "none"
              /\ out.val.subsections[2].distribution = WrittenLaw(arg.lfs[1], 1, arg.NE)

\* a section of a Maxwellian subsection and a subsection of LF = 2 was parsed
MF5OfUnknownLF ==
    /\ ParsedMF5
    /\ arg.lfs = <<7, 2>>
    /\ out.val.subsections[2].LF = 2
    /\ out.val.subsections[2].distribution = out.val.subsections[1].distribution

\* a section of two subsections of the six families was parsed
MF5OfKnownLFs ==
    /\ ParsedMF5
    /\ arg.lfs = <<1, 12>>
    /\ arg.NE = 2
    /\ out.pos = Len(tape)

---------------------------------------------------------------------------
(* The sub-subsections of a covariance subsection *)

\* a whole subsection whose NI sub-subsections all have a recognized LB was
\* parsed
ParsedMF33 ==
    /\ phase = "parse_mf33_subsection"
    /\ arg.cut = 0
    /\ \A i \in 1..Len(arg.lbs) : arg.lbs[i] # 7

\* the NI sub-subsections are those written, in their order, each read from its
\* own LIST record, and the stream is left at its end
NIAsWritten ==
    /\ out.exc = "none"
    /\ out.pos = Len(tape)
    /\ Len(out.val.ni_subsections) = Len(arg.lbs)
    /\ \A i \in 1..Len(arg.lbs) :
          /\ out.val.ni_subsections[i].LB = arg.lbs[i]
          /\ arg.lbs[i] \notin {5, 6} => out.val.ni_subsections[i].LT = i
          /\ arg.lbs[i] = 5 => out.val.ni_subsections[i].LS = i

\* the NC sub-subsections are those written, in their order
NCAsWritten ==
    /\ out.exc = "none"
    /\ Len(out.val.nc_subsections) = Len(arg.ltys)
    /\ \A i \in 1..Len(arg.ltys) : out.val.nc_subsections[i].LTY = arg.ltys[i]

\* C26 as stated: the result holds exactly NC entries in nc_subsections and
\* exactly NI entries in ni_subsections, one per sub-subsection in stream
\* order, for every LTY and every recognized LB, and the look-ahead that reads
\* LB leaves the stream where it was, so that each LIST record is read once.
C26_CountsAsStated == ParsedMF33 => NCAsWritten /\ NIAsWritten

\* what holds of C26 in the code: the NI part, and an NC list that holds every
\* sub-subsection of LTY = 0 twice
NCOfZeroTwice ==
    ParsedMF33 =>
        /\ NIAsWritten
        /\ Len(out.val.nc_subsections)
               = Len(arg.ltys) + Cardinality({ i \in 1..Len(arg.ltys) : arg.ltys[i] = 0 })
        /\ (\A i \in 1..Len(arg.ltys) : arg.ltys[i] # 0) => NCAsWritten

\* a subsection with one NC sub-subsection of LTY = 0 was parsed: two entries
MF33OfZeroLTY ==
    /\ ParsedMF33
    /\ arg.ltys = <<0>>
    /\ out.val.NC = 1
    /\ Len(out.val.nc_subsections) = 2
    /\ out.val.nc_subsections[1] = out.val.nc_subsections[2]

\* a subsection with NI sub-subsections of LB = 5 and LB = 6 after an NC
\* sub-subsection of LTY = 1 was parsed
MF33OfMatrices ==
    /\ ParsedMF33
    /\ arg.ltys = <<1>>
    /\ arg.lbs = <<5, 6>>
    /\ out.val.ni_subsections[2].NEC = 2
    /\ out.val.ni_subsections[2].EC = <<Float(3, 0), Float(4, 0)>>

---------------------------------------------------------------------------
(* The parameter records of the ranges of MF=2 *)

\* a whole section of MF=2 was parsed
ParsedMF2 == phase = "parse_mf2" /\ arg.cut = 0

\* the range number i is one of Adler-Adler parameters
IsAdlerAdler(i) == arg.ranges[i] = <<1, 4>>

\* the range number i is an unresolved one of energy-independent parameters
IsUnresolvedLRF1(i) == arg.ranges[i] = <<2, 1>>

\* the parsed range rr holds the parameters of a range of kind (LRU, LRF)
HoldsParameters(rr, kind) ==
    CASE kind[2] = 0 -> "SPI" \in DOMAIN rr
      [] kind[1] \in {0, 1} /\ kind[2] \in {1, 2, 3} ->
            "sections" \in DOMAIN rr /\ Len(rr.sections) = 1
      [] kind[1] \in {0, 1} /\ kind[2] = 7 ->
            "spin_groups" \in DOMAIN rr /\ Len(rr.spin_groups) = 1
      [] kind[1] = 2 -> "ranges" \in DOMAIN rr /\ Len(rr.ranges) = 1
      [] OTHER -> FALSE

\* every range written is in the result with its own header and the parameters
\* of its kind, and the stream is left at its end
RangesAsWritten ==
    /\ out.exc = "none"
    /\ out.pos = Len(tape)
    /\ Len(out.val.isotopes) = 1
    /\ Len(out.val.isotopes[1].ranges) = Len(arg.ranges)
    /\ \A i \in 1..Len(arg.ranges) :
          /\ out.val.isotopes[1].ranges[i].EL = Float(i, 0)
          /\ out.val.isotopes[1].ranges[i].LRU = arg.ranges[i][1]
          /\ out.val.isotopes[1].ranges[i].LRF = arg.ranges[i][2]
          /\ HoldsParameters(out.val.isotopes[1].ranges[i], arg.ranges[i])

\* C27 as stated: every range with LRF # 0 has its parameter records consumed
\* by the formalism of its (LRU, LRF), so that the header of the next range is
\* read from the line after them; a resolved range of LRF = 4 is fatal; an
\* unresolved range is read by the unresolved reader for LRF = 1 as for LRF = 2.
C27_ParametersConsumed ==
    ParsedMF2 =>
        IF \E i \in 1..Len(arg.ranges) : IsAdlerAdler(i)
        THEN out.exc = "NotImplementedError"
        ELSE RangesAsWritten

\* what holds of C27 in the code: the same for the sections without an
\* unresolved range of LRF = 1
ConsumedButUnresolvedLRF1 ==
    ParsedMF2 /\ (\A i \in 1..Len(arg.ranges) : ~IsUnresolvedLRF1(i))
        => IF \E i \in 1..Len(arg.ranges) : IsAdlerAdler(i)
           THEN out.exc = "NotImplementedError"
           ELSE RangesAsWritten

\* an unresolved range of LRF = 1 at the head of a section never holds
\* parameters: none of its records is read for it
UnresolvedLRF1Unread ==
    ParsedMF2 /\ IsUnresolvedLRF1(1)
        => \/ out.exc # "none"
           \/ /\ ~HoldsParameters(out.val.isotopes[1].ranges[1], arg.ranges[1])
              /\ DOMAIN out.val.isotopes[1].ranges[1]
                     = {"kind", "EL", "EH", "LRU", "LRF", "NRO", "NAPS"}

\* a section of the one unresolved range of LRF = 1 without fission widths was
\* parsed: the stream is left after the header of the range
MF2OfUnresolvedLRF1 ==
    /\ ParsedMF2
    /\ arg.ranges = << <<2, 1>> >>
    /\ arg.LFW = 0
    /\ arg.NRO = 0
    /\ out.exc = "none"
    /\ out.pos = 3
    /\ Len(tape) = 6

\* a section of an unresolved range of LRF = 1 followed by another range was
\* parsed: the header of the second range was read from the records of the
\* first
MF2OfMisreadHeader ==
    /\ ParsedMF2
    /\ arg.ranges = << <<2, 1>>, <<0, 0>> >>
    /\ arg.LFW = 0
    /\ out.exc = "none"
    /\ Len(out.val.isotopes[1].ranges) = 2
    /\ out.val.isotopes[1].ranges[2].EL # Float(2, 0)

\* a section of an unresolved range of LRF = 2 after an R-matrix limited range
\* was parsed
MF2OfKnownKinds ==
    /\ ParsedMF2
    /\ arg.ranges = << <<1, 7>>, <<2, 2>> >>
    /\ RangesAsWritten

---------------------------------------------------------------------------
(* Two constructions, each on its own stream, their steps interleaved.      *)
(* arg holds the two streams and the offsets they are handed over at, out   *)
(* the two frames of Material.__init__: the statement it is at and its      *)
(* local names, its stream's offset and the attributes of self.             *)

\* the section written then: HEAD, a data line, SEND
PairSection(h) == <<h, DataLine(h), SEND(h)>>

\* the streams of material m: no TPID, a TPID, or a TPID and a stray FEND
\* before the sections; the end records present or cut off
PairTapes(m) ==
    { lead \o body \o fin :
        lead \in {<<>>, <<TPID>>, <<TPID, FEND(m)>>},
        body \in { PairSection(Line(m, MF_3, MT_1, "head")),
                   PairSection(Line(m, MF_3, MT_1, "head"))
                       \o PairSection(Line(m, MF_1, MT_3, "head")),
                   PairSection(Line(m, MF_3, MT_2, "junk")) },
        fin \in {<<FEND(m), MEND>>, <<>>} }

\* the frame of a construction whose stream is at offset p
NewFrame(p) ==
    [pc |-> "start", pos |-> p, MAT |-> 0, MF |-> 0, MT |-> 0, text |-> <<>>,
     section_text |-> <<>>, i |-> 1, section_data |-> <<>>, warnings |-> <<>>,
     exc |-> "none"]

\* a variant of fh.tell() in which both constructions hold the same stream
\* object
Tell_Shared(frames, i) == frames[1].pos

\* fh.tell() in the construction i: fh is the stream the caller passed to it
Tell(frames, i) == frames[i].pos

\* the lines of the stream of the construction i
Stream(i) == arg.streams[i]

InitPair ==
    /\ arg \in [streams : PairTapes(MAT_125) \X PairTapes(MAT_126),
                start : {0, 1} \X {0, 1}]
    /\ out = <<NewFrame(arg.start[1]), NewFrame(arg.start[2])>>
    /\ phase = "pair"
    /\ tape = <<>>
    /\ pos = 0
    /\ mat = NoMaterial("none", 0)
    /\ materials = <<>>
    /\ ret = NoRet
    /\ nset = 0

\* the frame f after raising exc with its stream at offset p
FrameRaised(f, exc, p) == [f EXCEPT !.pc = "raised", !.exc = exc, !.pos = p]

\* if fh.tell() == 0: fh.readline(); MF = 0
SkipLeadingLine(i) ==
    /\ phase = "pair"
    /\ out[i].pc = "start"
    /\ out' = [out EXCEPT ![i] = [@ EXCEPT !.pos = SkipTPID(Stream(i), Tell(out, i)),
                                           !.MF = 0, !.pc = "mat"]]
    /\ UNCHANGED <<arg, tape, pos, phase, mat, materials, ret, nset>>

\* one turn of 'while MF == 0', and for a nonzero MF the two statements after
\* the loop: self._MAT = int(line[66:70]); fh.seek(position)
TurnFindMAT(i) ==
    /\ phase = "pair"
    /\ out[i].pc = "mat"
    /\ out' = [out EXCEPT ![i] =
           The({ IF ~PyInt(r.line.mf).ok THEN FrameRaised(@, "ValueError", r.pos)
                 ELSE IF PyInt(r.line.mf).val = 0 THEN [@ EXCEPT !.pos = r.pos]
                 ELSE IF ~PyInt(r.line.mat).ok THEN FrameRaised(@, "ValueError", r.pos)
                 ELSE [@ EXCEPT !.MF = PyInt(r.line.mf).val,
                                !.MAT = PyInt(r.line.mat).val, !.pc = "find"]
                 : r \in {ReadLine(Stream(i), Tell(out, i))} })]
    /\ UNCHANGED <<arg, tape, pos, phase, mat, materials, ret, nset>>

\* one turn of the loop that finds the next section, and at its break: for
\* MAT == 0 the readline() that ends the outer loop, otherwise section_text = ''
TurnFindSection(i) ==
    /\ phase = "pair"
    /\ out[i].pc = "find"
    /\ out' = [out EXCEPT ![i] =
           The({ IF ~PyInt(r.line.mat).ok \/ ~PyInt(r.line.mf).ok \/ ~PyInt(r.line.mt).ok
                 THEN FrameRaised(@, "ValueError", r.pos)
                 ELSE IF PyInt(r.line.mat).val = 0
                 THEN [@ EXCEPT !.pos = r.pos, !.pc = "parse", !.i = 1]
                 ELSE IF PyInt(r.line.mt).val > 0
                 THEN [@ EXCEPT !.MF = PyInt(r.line.mf).val, !.MT = PyInt(r.line.mt).val,
                                !.text = <<>>, !.pc = "text"]
                 ELSE [@ EXCEPT !.pos = r.pos]
                 : r \in {ReadLine(Stream(i), Tell(out, i))} })]
    /\ UNCHANGED <<arg, tape, pos, phase, mat, materials, ret, nset>>

\* one turn of the loop that gathers section_text; at the end of the stream
\* the turn changes nothing and the loop never ends
TurnReadText(i) ==
    /\ phase = "pair"
    /\ out[i].pc = "text"
    /\ out' = [out EXCEPT ![i] =
           The({ IF r.line.mt = MT_ZERO
                 THEN [@ EXCEPT !.section_text = DictSet(@, <<out[i].MF, out[i].MT>>,
                                                         PyText(out[i].text)),
                                !.pos = r.pos, !.pc = "find"]
                 ELSE IF r.line = EOFLine THEN [@ EXCEPT !.pc = "never"]
                 ELSE [@ EXCEPT !.text = AddLine(@, r.line), !.pos = r.pos]
                 : r \in {ReadLine(Stream(i), Tell(out, i))} })]
    /\ UNCHANGED <<arg, tape, pos, phase, mat, materials, ret, nset>>

\* one turn of 'for (MF, MT), text in self._section_text.items()', or its end
TurnParse(i) ==
    /\ phase = "pair"
    /\ out[i].pc = "parse"
    /\ out' = [out EXCEPT ![i] =
           IF @.i > Len(@.section_text) THEN [@ EXCEPT !.pc = "built"]
           ELSE The({ IF Dispatch(e.k[1], e.k[2]) = "ignored"
                      THEN [@ EXCEPT !.warnings = Append(@, e.k), !.i = @ + 1]
                      ELSE The({ IF r.exc # "none" THEN FrameRaised(@, r.exc, @.pos)
                                 ELSE [@ EXCEPT !.section_data = DictSet(@, e.k, r.val),
                                                !.i = @ + 1]
                                 : r \in {RunParser(Dispatch(e.k[1], e.k[2]), e.v)} })
                      : e \in {@.section_text[@.i]} })]
    /\ UNCHANGED <<arg, tape, pos, phase, mat, materials, ret, nset>>

NextPair ==
    \E i \in 1..2 :
        \/ SkipLeadingLine(i)
        \/ TurnFindMAT(i)
        \/ TurnFindSection(i)
        \/ TurnReadText(i)
        \/ TurnParse(i)

SpecPair == InitPair /\ [][NextPair]_vars

\* the construction of the frame f is over
Over(f) == f.pc \in {"built", "raised", "never"}

\* what the construction of the frame f gave its caller
FrameResult(f) ==
    IF f.pc = "built"
    THEN [status |-> "ok", MAT |-> f.MAT, section_text |-> f.section_text,
          section_data |-> f.section_data, warnings |-> f.warnings, pos |-> f.pos]
    ELSE IF f.pc = "never" THEN NoMaterial("never", f.pos)
    ELSE NoMaterial(f.exc, f.pos)

\* C22: two constructions on independent streams share no mutable state:
\* however their steps interleave, each gives the Material (MAT, sections,
\* section texts, parsed data), or raises, as it does when run alone.
C22_AsAlone ==
    phase = "pair" =>
        \A i \in 1..2 :
            Over(out[i]) => FrameResult(out[i]) = MaterialInit(Stream(i), arg.start[i])

\* both constructions are over, one with two sections of which one has no
\* parser, the other with one section, each with the MAT of its own stream
C22_Witness ==
    /\ phase = "pair"
    /\ out[1].pc = "built" /\ out[2].pc = "built"
    /\ Len(out[1].section_text) = 2 /\ Len(out[1].section_data) = 1
    /\ Len(out[2].section_text) = 1 /\ Len(out[2].section_data) = 1
    /\ out[1].MAT = 125 /\ out[2].MAT = 126
    /\ arg.start = <<0, 1>>

\* the first line after the skipped one, if any, whose file number is nonzero
FirstWithFile(i) == Least(FirstLines(Stream(i), arg.start[i]))

\* C23: a construction that begins at offset 0 skips exactly one line without
\* inspecting it, one that begins elsewhere skips none; MAT is then the
\* material number of the first following line whose file number is nonzero,
\* and that line is not consumed: it is the first line examined for the first
\* section.
C23_SeekStart ==
    [][\A i \in 1..2 :
          /\ (out[i].pc = "start" /\ out'[i].pc # "start")
                => /\ out'[i].pc = "mat"
                   /\ out'[i].pos = (IF arg.start[i] = 0 THEN 1 ELSE arg.start[i])
          /\ (out[i].pc = "mat" /\ out'[i].pc = "find")
                => /\ out'[i].MAT = PyInt(Stream(i)[FirstWithFile(i)].mat).val
                   /\ out'[i].pos = FirstWithFile(i) - 1
          /\ (/\ out[i].pc = "find" /\ out[i].section_text = <<>>
               /\ out[i].pos = FirstWithFile(i) - 1
               /\ MTPositive(Stream(i)[FirstWithFile(i)])
               /\ out'[i] # out[i])
                => /\ out'[i].pc = "text"
                   /\ out'[i].pos = out[i].pos
                   /\ <<out'[i].MF, out'[i].MT>> = KeyOf(Stream(i)[FirstWithFile(i)])
    ]_vars

\* the first construction began at offset 0 of a stream with a TPID and a
\* stray FEND, the second at offset 1 of a stream without TPID; both found
\* their MAT and are at the first line with a nonzero file number
C23_Witness ==
    /\ phase = "pair"
    /\ arg.start = <<0, 1>>
    /\ Stream(1)[1] = TPID /\ Stream(1)[2] = FEND(MAT_125)
    /\ Stream(2)[1] # TPID
    /\ out[1].pc = "find" /\ out[1].section_text = <<>>
    /\ out[1].pos = 2 /\ out[1].MAT = 125
    /\ out[2].pc = "find" /\ out[2].section_text = <<>>
    /\ out[2].pos = 1 /\ out[2].MAT = 126

---------------------------------------------------------------------------
(* The interval and the region of a query *)

\* x[0] < q < x[-1]
StrictlyInside(f, q) ==
    Len(f.x) >= 2 /\ FloatLess(f.x[1], q) /\ FloatLess(q, f.x[Len(f.x)])

\* the intervals i, from 0, with x[i] <= q < x[i+1]
IntervalsOf(f, q) ==
    { i \in 0..(Len(f.x) - 2) : LessEq(f.x[i + 1], q) /\ FloatLess(q, f.x[i + 2]) }

\* the regions k, from 0, with breakpoints[k-1] - 1 <= i < breakpoints[k] - 1,
\* breakpoints[-1] - 1 taken as 0
RegionsOfInterval(f, i) ==
    { k \in 0..(Len(f.breakpoints) - 1) :
        /\ (IF k = 0 THEN 0 ELSE f.breakpoints[k] - 1) <= i
        /\ i < f.breakpoints[k + 1] - 1 }

\* the law of the one region of the interval i
LawOfInterval(f, i) == f.interpolation[The(RegionsOfInterval(f, i)) + 1]

\* what the scalar path gives when it applies law p on the interval i
ScalarOn(f, q, i, p) ==
    IF ValueError = ScalarLaw(p, q, f.x[i + 1], f.x[i + 2], f.y[i + 1], f.y[i + 2])
    THEN Raised("ValueError", 0, 0)
    ELSE Returned(ScalarLaw(p, q, f.x[i + 1], f.x[i + 2], f.y[i + 1], f.y[i + 2]), 0, 0)

\* what the array path gives when it applies law p on the interval i
ArrayOn(f, q, i, p) == ArrayLaw(p, q, f.x[i + 1], f.x[i + 2], f.y[i + 1], f.y[i + 2])

\* the query q strictly inside the table f has one interval and that interval
\* has one region
OneIntervalOneRegion(f, q) ==
    /\ Cardinality(IntervalsOf(f, q)) = 1
    /\ Cardinality(RegionsOfInterval(f, The(IntervalsOf(f, q)))) = 1

\* C24: on a table that satisfies the region invariant, for a query q with
\* x[0] < q < x[-1], the scalar and the array evaluation select the same
\* interval i, x[i] <= q < x[i+1], and the same region k, the only one with
\* breakpoints[k-1] - 1 <= i < breakpoints[k] - 1, and apply its law; integral()
\* gives the interval i the law of that region.
C24_SameRegion ==
    /\ (phase = "interpolate_scalar" /\ RegionInvariant(arg.f)
            /\ StrictlyInside(arg.f, arg.x))
          => /\ OneIntervalOneRegion(arg.f, arg.x)
             /\ out = ScalarOn(arg.f, arg.x, The(IntervalsOf(arg.f, arg.x)),
                               LawOfInterval(arg.f, The(IntervalsOf(arg.f, arg.x))))
    /\ (phase = "Tabulated1D_call" /\ RegionInvariant(arg.f))
          => \A j \in DOMAIN arg.x :
                StrictlyInside(arg.f, arg.x[j])
                   => /\ OneIntervalOneRegion(arg.f, arg.x[j])
                      /\ Interpolated(arg.f, arg.x[j])
                            = ArrayOn(arg.f, arg.x[j], The(IntervalsOf(arg.f, arg.x[j])),
                                      LawOfInterval(arg.f, The(IntervalsOf(arg.f, arg.x[j]))))
                      /\ out.val[j] \in { Interpolated(arg.f, arg.x[j]),
                                          First(arg.f).y, Final(arg.f).y }
                      /\ (~isclose(arg.x[j], First(arg.f).x)
                              /\ ~isclose(arg.x[j], Final(arg.f).x))
                            => out.val[j] = Interpolated(arg.f, arg.x[j])
    /\ (phase = "integral" /\ RegionInvariant(arg.f) /\ Len(arg.f.x) >= 2)
          => /\ \A i \in 0..(Len(arg.f.x) - 2) :
                    Cardinality(RegionsOfInterval(arg.f, i)) = 1
             /\ out = Returned(
                    <<Float(0, 0)>> \o
                        CumSum([i \in 1..(Len(arg.f.x) - 1) |->
                                    Panel(LawOfInterval(arg.f, i - 1), arg.f.x[i],
                                          arg.f.x[i + 1], arg.f.y[i], arg.f.y[i + 1])],
                               Len(arg.f.x) - 1),
                    0, 0)

\* an array of a query in the first and one in the second interval of a table
\* of two regions, a histogram and a lin-lin one, was evaluated: the first item
\* is y[0], the second is between y[1] and y[2]
C24_Witness ==
    /\ phase = "Tabulated1D_call"
    /\ arg.f.x = <<Float(1, 0), Float(2, 0), Float(3, 0)>>
    /\ arg.f.y = <<Float(2, 0), Float(4, 0), Float(2, 0)>>
    /\ arg.f.breakpoints = <<2, 3>>
    /\ arg.f.interpolation = <<1, 2>>
    /\ arg.x = <<Float(15, 0 - 1), Float(25, 0 - 1)>>
    /\ IntervalsOf(arg.f, arg.x[1]) = {0} /\ RegionsOfInterval(arg.f, 0) = {0}
    /\ IntervalsOf(arg.f, arg.x[2]) = {1} /\ RegionsOfInterval(arg.f, 1) = {1}
    /\ out.val[1] = Float(2, 0)
    /\ FloatLess(Float(2, 0), out.val[2]) /\ FloatLess(out.val[2], Float(4, 0))

---------------------------------------------------------------------------
(* IncidentNeutron._get_reaction_components of incident_neutron.py *)

\* list(range(a, b))
RangeList(a, b) == [i \in 1..(b - a) |-> a + i - 1]

\* SUM_RULES: the redundant reactions and the reactions each is the sum of
SUM_RULES ==
    (1 :> <<2, 3>>)
    @@ (3 :> <<4, 5, 11, 16, 17, 22, 23, 24, 25, 27, 28, 29, 30, 32, 33, 34, 35,
               36, 37, 41, 42, 44, 45, 152, 153, 154, 156, 157, 158, 159, 160,
               161, 162, 163, 164, 165, 166, 167, 168, 169, 170, 171, 172,
               173, 174, 175, 176, 177, 178, 179, 180, 181, 183, 184, 185,
               186, 187, 188, 189, 190, 194, 195, 196, 198, 199, 200>>)
    @@ (4 :> RangeList(50, 92))
    @@ (16 :> RangeList(875, 892))
    @@ (18 :> <<19, 20, 21, 38>>)
    @@ (27 :> <<18, 101>>)
    @@ (101 :> <<102, 103, 104, 105, 106, 107, 108, 109, 111, 112, 113, 114,
                 115, 116, 117, 155, 182, 191, 192, 193, 197>>)
    @@ (103 :> RangeList(600, 650))
    @@ (104 :> RangeList(650, 700))
    @@ (105 :> RangeList(700, 750))
    @@ (106 :> RangeList(750, 800))
    @@ (107 :> RangeList(800, 850))

\* a variant of the last statement that keeps MT beside its components
OwnOrComponents_Both(reactions, MT, mts) ==
    mts \o (IF MT \in reactions THEN <<MT>> ELSE <<>>)

\* the last statement: the components found, else [MT] if MT in self else []
OwnOrComponents(reactions, MT, mts) ==
    IF mts # <<>> THEN mts
    ELSE IF MT \in reactions THEN <<MT>> ELSE <<>>

RECURSIVE get_reaction_components(_, _)
RECURSIVE ComponentsOfList(_, _, _, _)
\* what the loop 'for MT_i in SUM_RULES[MT]: mts += ...' adds to mts for the
\* items lo..hi of list: the components of each item, in the order of the
\* list (the items are halved to keep the evaluation shallow)
ComponentsOfList(reactions, list, lo, hi) ==
    IF lo > hi THEN <<>>
    ELSE IF lo = hi THEN get_reaction_components(reactions, list[lo])
    ELSE ComponentsOfList(reactions, list, lo, (lo + hi) \div 2)
             \o ComponentsOfList(reactions, list, (lo + hi) \div 2 + 1, hi)

\* _get_reaction_components(MT) of an IncidentNeutron whose reactions have the
\* keys of the set reactions
get_reaction_components(reactions, MT) ==
    OwnOrComponents(reactions, MT,
                    IF MT \in DOMAIN SUM_RULES
                    THEN ComponentsOfList(reactions, SUM_RULES[MT], 1, Len(SUM_RULES[MT]))
                    ELSE <<>>)

---------------------------------------------------------------------------
(* _get_reaction_components on its own *)

\* the reactions an IncidentNeutron may hold: reactions of every level of
\* SUM_RULES
HeldMTs == {1, 2, 3, 4, 50, 27, 18, 19, 101, 102, 103, 600}

\* the reactions asked for: sums, their parts, and a reaction never held
AskedMTs == {1, 2, 3, 4, 5, 27, 18, 101, 103, 600}

InitSum ==
    /\ arg \in [kind : {"_get_reaction_components"}, reactions : SUBSET HeldMTs,
                MT : AskedMTs]
    /\ out = <<>>
    /\ phase = "call"
    /\ tape = <<>>
    /\ pos = 0
    /\ mat = NoMaterial("none", 0)
    /\ materials = <<>>
    /\ ret = NoRet
    /\ nset = 0

\* data._get_reaction_components(MT)
CallGetReactionComponents ==
    /\ phase = "call"
    /\ arg.kind = "_get_reaction_components"
    /\ out' = get_reaction_components(arg.reactions, arg.MT)
    /\ phase' = "_get_reaction_components"
    /\ UNCHANGED <<arg, tape, pos, mat, materials, ret, nset>>

NextSum == CallGetReactionComponents

SpecSum == InitSum /\ [][NextSum]_vars

\* the items of a list
ItemsOf(list) == { list[i] : i \in 1..Len(list) }

RECURSIVE Descendants(_)
\* the reactions below MT in SUM_RULES
Descendants(MT) ==
    IF MT \notin DOMAIN SUM_RULES THEN {}
    ELSE ItemsOf(SUM_RULES[MT]) \cup UNION { Descendants(c) : c \in ItemsOf(SUM_RULES[MT]) }

\* C25: every entry of the result is a reaction that is held, no entry comes
\* twice, no entry is an ancestor of another in SUM_RULES; the result is [MT]
\* exactly when MT is held and none of its descendants is, and [] exactly when
\* neither MT nor any of its descendants is held.
C25_Components ==
    phase = "_get_reaction_components" =>
        /\ \A i \in 1..Len(out) : out[i] \in arg.reactions
        /\ \A i, j \in 1..Len(out) : i # j => out[i] # out[j]
        /\ \A i, j \in 1..Len(out) : out[j] \notin Descendants(out[i])
        /\ out = <<arg.MT>>
              <=> (arg.MT \in arg.reactions /\ Descendants(arg.MT) \cap arg.reactions = {})
        /\ out = <<>>
              <=> (arg.MT \notin arg.reactions /\ Descendants(arg.MT) \cap arg.reactions = {})

\* the components of MT = 1 were asked of data that holds sums and parts of
\* four levels: the parts without a held part below them come back
C25_Witness ==
    /\ phase = "_get_reaction_components"
    /\ arg.MT = 1
    /\ arg.reactions = {1, 2, 3, 4, 50, 27, 18, 19, 101, 102, 103}
    /\ out = <<2, 50, 19, 102, 103>>

---------------------------------------------------------------------------
(* _get_fission_products_endf of reaction.py.  Objects live in a heap, a    *)
(* sequence of values; a reference is an index into it, so that two names   *)
(* of one object and a copy of an object are told apart.  The frame fr of   *)
(* the call holds the heap, the lists products and derived_products, the    *)
(* locals yield_ (0: not bound) and decay_constants (bound: whether it is   *)
(* bound), and the exception raised.                                        *)

\* numpy.polynomial.Polynomial(coef): the coefficients are copied
Polynomial(coef) == [kind |-> "Polynomial", coef |-> coef]

\* Product('neutron', yield_=ref), as __init__ of product.py leaves it
Product(ref) ==
    [name |-> "neutron", yield_ |-> ref, decay_rate |-> Float(0, 0),
     distribution |-> <<>>, emission_mode |-> "prompt"]

\* the heap with the new object v, whose reference is the new length
Alloc(heap, v) == Append(heap, v)

\* the objects that the parsed data of the Material m holds: data['nu'] of
\* (1, 456), of (1, 452) and of (1, 455), then subsection['p'] of each of the
\* NK subsections of (5, 455)
Nu(MT) == CASE MT = 456 -> 1 [] MT = 452 -> 2 [] MT = 455 -> 3
Applicability(i) == 3 + i

Heap0(m) ==
    << Tabulated1D(<<Float(1, 0), Float(2, 0)>>, <<Float(2, 0), Float(2, 0)>>, PyNone, PyNone),
       Tabulated1D(<<Float(1, 0), Float(2, 0)>>, <<Float(3, 0), Float(3, 0)>>, PyNone, PyNone),
       Tabulated1D(<<Float(1, 0), Float(2, 0)>>, <<Float(1, 0), Float(2, 0)>>, PyNone, PyNone) >>
    \o [i \in 1..m.NK |->
           IF m.flat
           THEN Tabulated1D(<<Float(1, 0), Float(2, 0)>>, <<Float(2, 0), Float(2, 0)>>,
                            PyNone, PyNone)
           ELSE Tabulated1D(<<Float(1, 0), Float(3, 0)>>, <<Float(1, 0), Float(2, 0)>>,
                            PyNone, PyNone)]

\* data['C'] of (1, 456), of (1, 452) and of (1, 455)
C456 == <<Float(2, 0)>>
C452 == <<Float(3, 0)>>
C455(m) == IF m.NC = 1 THEN <<Float(4, 0)>> ELSE <<Float(4, 0), Float(1, 0)>>

\* data['lambda'] of (1, 455)
Lambda(m) == [i \in 1..m.groups |-> Float(i, 0)]

Frame0(m) ==
    [heap |-> Heap0(m), products |-> <<>>, derived |-> <<>>, yield_ |-> 0,
     decay_constants |-> <<>>, bound |-> FALSE, exc |-> "none"]

\* the neutron of a section with LNU and data['C'] = C, data['nu'] = nu: the
\* local yield_ is a new Polynomial for LNU = 1, data['nu'] itself for
\* LNU = 2 and what it was for another LNU (0: not bound)
WithYield(fr, LNU, C, nu) ==
    IF LNU = 1
    THEN [fr EXCEPT !.heap = Alloc(@, Polynomial(C)), !.yield_ = Len(fr.heap) + 1]
    ELSE IF LNU = 2 THEN [fr EXCEPT !.yield_ = nu]
    ELSE fr

\* if (1, 456) in material: the prompt neutron
Prompt(m, fr0) ==
    IF ~m.has456 THEN fr0
    ELSE The({ IF fr.yield_ = 0 THEN [fr EXCEPT !.exc = "UnboundLocalError"]
               ELSE [fr EXCEPT !.products = Append(@, Product(fr.yield_))]
               : fr \in {WithYield(fr0, m.LNU456, C456, Nu(456))} })

\* if (1, 452) in material: the total neutron, a derived product where
\* (1, 456) is there
Total(m, fr0) ==
    IF ~m.has452 \/ fr0.exc # "none" THEN fr0
    ELSE The({ IF fr.yield_ = 0 THEN [fr EXCEPT !.exc = "UnboundLocalError"]
               ELSE IF m.has456
               THEN [fr EXCEPT !.derived =
                         Append(@, [Product(fr.yield_) EXCEPT !.emission_mode = "total"])]
               ELSE [fr EXCEPT !.products =
                         Append(@, [Product(fr.yield_) EXCEPT !.emission_mode = "total"])]
               : fr \in {WithYield(fr0, m.LNU452, C452, Nu(452))} })

RECURSIVE DelayedGroups(_, _, _)
\* for constant in data['lambda']: a delayed neutron with the default yield
DelayedGroups(constants, i, fr0) ==
    The({ IF i > Len(constants) THEN fr
          ELSE DelayedGroups(constants, i + 1,
                   [fr EXCEPT !.heap = Alloc(@, Polynomial(<<Float(1, 0)>>)),
                              !.products =
                                  Append(@, [Product(Len(fr.heap) + 1)
                                             EXCEPT !.emission_mode = "delayed",
                                                    !.decay_rate = constants[i]])])
          : fr \in {fr0} })

\* the indices, from 1, of products[-6:]
LastSix(products) == { i \in 1..Len(products) : i > Len(products) - 6 }

RECURSIVE AssignYields(_, _, _)
\* for neutron in products[-6:]: neutron.yield_ = a new object of value v
AssignYields(v, S, fr0) ==
    The({ IF S = {} THEN fr
          ELSE AssignYields(v, S \ {Least(S)},
                   [fr EXCEPT !.heap = Alloc(@, v),
                              !.products[Least(S)].yield_ = Len(fr.heap) + 1])
          : fr \in {fr0} })

\* the delayed neutrons of (1, 455) and their yield
Delayed(m, fr0) ==
    IF m.LDG = 1 THEN [fr0 EXCEPT !.exc = "NotImplementedError"]
    ELSE The({ IF m.LNU455 = 1
               THEN AssignYields(Polynomial(C455(m)), LastSix(fr.products), fr)
               ELSE IF m.LNU455 = 2
               THEN AssignYields(fr.heap[Nu(455)], LastSix(fr.products), fr)
               ELSE fr
               : fr \in {IF m.LDG = 0
                         THEN DelayedGroups(Lambda(m), 1,
                                            [fr0 EXCEPT !.decay_constants = Lambda(m),
                                                        !.bound = TRUE])
                         ELSE fr0} })

RECURSIVE SplitGroups(_, _)
\* for _ in range(NK - 1): products.append(deepcopy(products[1]))
SplitGroups(n, fr0) ==
    The({ IF n <= 0 THEN fr
          ELSE IF Len(fr.products) < 2 THEN [fr EXCEPT !.exc = "IndexError"]
          ELSE SplitGroups(n - 1,
                   [fr EXCEPT !.heap = Alloc(@, fr.heap[fr.products[2].yield_]),
                              !.products = Append(@, [fr.products[2] EXCEPT
                                                          !.yield_ = Len(fr.heap) + 1])])
          : fr \in {fr0} })

\* the least float of a set of floats
MinFloat(S) == CHOOSE v \in S : \A w \in S : LessEq(v, w)

RECURSIVE Sorted(_)
\* the floats of a set in rising order
Sorted(S) == IF S = {} THEN <<>> ELSE <<MinFloat(S)>> \o Sorted(S \ {MinFloat(S)})

\* np.union1d(a, b) cut at energy <= max_energy
UnionUpTo(a, b, max_energy) ==
    LET Below(e) == LessEq(e, max_energy)
    IN  SelectSeq(Sorted({ a[i] : i \in 1..Len(a) } \cup { b[i] : i \in 1..Len(b) }), Below)

\* Tabulated1D(energy, yield_(energy) * applicability(energy))
GroupYield(y, a, energy) ==
    Tabulated1D(energy,
                [j \in 1..Len(energy) |->
                     Mul(Tabulated1D_call(y, energy).val[j],
                         Tabulated1D_call(a, energy).val[j])],
                PyNone, PyNone)

\* np.all(applicability.y == applicability.y[0])
AllSame(a) == \A j \in 1..Len(a.y) : a.y[j] = a.y[1]

\* y scaled in place: y *= c
Scaled(f, c) == [f EXCEPT !.y = [j \in 1..Len(f.y) |-> Mul(f.y[j], c)]]

\* one turn of the loop over mf5_data['subsections'], for the subsection i
\* from 0 and the product p = products[1 + i], whose yield is the object r
\* of value y, with the applicability a
GroupTurn(fr, i, r, y, a) ==
    IF y.kind = "Tabulated1D"
    THEN IF AllSame(a)
         THEN [fr EXCEPT !.heap[r] = Scaled(y, a.y[1])]
         ELSE [fr EXCEPT !.heap = Alloc(@, GroupYield(y, a,
                                       UnionUpTo(y.x, a.x,
                                                 IF FloatLess(a.x[Len(a.x)], y.x[Len(y.x)])
                                                 THEN a.x[Len(a.x)] ELSE y.x[Len(y.x)]))),
                         !.products[2 + i].yield_ = Len(fr.heap) + 1]
    ELSE IF Len(y.coef) = 1
    THEN [fr EXCEPT !.heap = Alloc(@, Scaled(a, y.coef[1])),
                    !.products[2 + i].yield_ = Len(fr.heap) + 1]
    ELSE IF AllSame(a)
    THEN [fr EXCEPT !.heap[r] = [y EXCEPT !.coef[1] = Mul(@, a.y[1])]]
    ELSE [fr EXCEPT !.exc = "NotImplementedError"]

RECURSIVE Groups(_, _, _)
\* the loop over mf5_data['subsections'], of subsections of a known LF
Groups(NK, i, fr0) ==
    The({ IF fr.exc # "none" \/ i >= NK THEN fr
          ELSE IF 2 + i > Len(fr.products) THEN [fr EXCEPT !.exc = "IndexError"]
          ELSE The({ IF g.exc # "none" THEN g
                     ELSE Groups(NK, i + 1,
                              [g EXCEPT !.products[2 + i].distribution =
                                            Append(@, [kind |-> "UncorrelatedAngleEnergy",
                                                       energy |-> i])])
                     : g \in {GroupTurn(fr, i, fr.products[2 + i].yield_,
                                        fr.heap[fr.products[2 + i].yield_],
                                        fr.heap[Applicability(i + 1)])} })
          : fr \in {fr0} })

\* if (5, 455) in material: the yields of the groups
Spectra(m, fr0) ==
    IF fr0.exc # "none" \/ ~m.has5455 THEN fr0
    ELSE IF ~fr0.bound THEN [fr0 EXCEPT !.exc = "UnboundLocalError"]
    ELSE IF m.NK > 1 /\ Len(fr0.decay_constants) = 1
    THEN Groups(m.NK, 0, SplitGroups(m.NK - 1, fr0))
    ELSE IF m.NK # Len(fr0.decay_constants) THEN [fr0 EXCEPT !.exc = "ValueError"]
    ELSE Groups(m.NK, 0, fr0)

\* _get_fission_products_endf(material, MT)
get_fission_products_endf(m) ==
    The({ IF fr.exc # "none" \/ ~m.has455 THEN fr
          ELSE Spectra(m, Delayed(m, fr))
          : fr \in {Total(m, Prompt(m, Frame0(m)))} })

---------------------------------------------------------------------------
(* _get_fission_products_endf on its own *)

MaxGroups == 7      \* delayed groups of (1, 455), subsections of (5, 455)

InitFission ==
    /\ arg \in [kind : {"_get_fission_products_endf"},
                has456 : BOOLEAN, LNU456 : {1, 2}, has452 : BOOLEAN, LNU452 : {1, 2},
                has455 : BOOLEAN, LDG : {0, 1}, LNU455 : {1, 2}, NC : {1, 2},
                groups : 0..MaxGroups, has5455 : BOOLEAN, NK : 1..MaxGroups,
                flat : BOOLEAN]
    /\ out = <<>>
    /\ phase = "call"
    /\ tape = <<>>
    /\ pos = 0
    /\ mat = NoMaterial("none", 0)
    /\ materials = <<>>
    /\ ret = NoRet
    /\ nset = 0

\* _get_fission_products_endf(material, 18)
CallGetFissionProducts ==
    /\ phase = "call"
    /\ arg.kind = "_get_fission_products_endf"
    /\ out' = get_fission_products_endf(arg)
    /\ phase' = "_get_fission_products_endf"
    /\ UNCHANGED <<arg, tape, pos, mat, materials, ret, nset>>

NextFission == CallGetFissionProducts

SpecFission == InitFission /\ [][NextFission]_vars

---------------------------------------------------------------------------
(* The yields of the fission neutrons *)

\* the call returned for data with (1, 455)
AssembledWithDelayed ==
    phase = "_get_fission_products_endf" /\ out.exc = "none" /\ arg.has455

\* the value of the yield of the product p
YieldOf(p) == out.heap[p.yield_]

\* the yield a section gives its neutron
OwnYield(LNU, C, nu) == IF LNU = 1 THEN Polynomial(C) ELSE Heap0(arg)[nu]

\* the prompt and the total neutron hold the yield of their own sections
PromptAndTotalKept ==
    /\ arg.has456 =>
          /\ out.products[1].emission_mode = "prompt"
          /\ YieldOf(out.products[1]) = OwnYield(arg.LNU456, C456, Nu(456))
    /\ (arg.has452 /\ arg.has456) =>
          /\ out.derived[1].emission_mode = "total"
          /\ YieldOf(out.derived[1]) = OwnYield(arg.LNU452, C452, Nu(452))
    /\ (arg.has452 /\ ~arg.has456) =>
          /\ out.products[1].emission_mode = "total"
          /\ YieldOf(out.products[1]) = OwnYield(arg.LNU452, C452, Nu(452))

\* every delayed neutron holds the yield of (1, 455), where no (5, 455)
\* splits it among the groups
DelayedAssigned ==
    /\ Cardinality({ i \in 1..Len(out.products) :
                       out.products[i].emission_mode = "delayed" }) = arg.groups
    /\ ~arg.has5455 =>
          \A i \in 1..Len(out.products) :
              out.products[i].emission_mode = "delayed"
                 => YieldOf(out.products[i]) = OwnYield(arg.LNU455, C455(arg), Nu(455))

\* the objects held by the parsed data of the Material are as they were
MaterialKept == SubSeq(out.heap, 1, Len(Heap0(arg))) = Heap0(arg)

\* C30 as stated: the assignment of the yield of (1, 455) changes the yield of
\* every delayed neutron and of no other product, for any number of delayed
\* groups: the prompt or total neutron keeps the yield of its own section, and
\* the parsed data of the Material is not modified.
C30_OnlyDelayedChanged ==
    AssembledWithDelayed => PromptAndTotalKept /\ DelayedAssigned /\ MaterialKept

\* what holds of C30 in the code: the same where products[-6:] is the list of
\* the delayed neutrons, that is for six groups, or for fewer with neither a
\* prompt nor a total neutron before them; and the parsed data is never
\* modified
OnlyDelayedChangedOfSix ==
    /\ (AssembledWithDelayed
           /\ (arg.groups = 6 \/ (arg.groups < 6 /\ ~arg.has456 /\ ~arg.has452)))
          => PromptAndTotalKept /\ DelayedAssigned /\ MaterialKept
    /\ phase = "_get_fission_products_endf" => MaterialKept

\* with fewer than six groups after a prompt or total neutron, that neutron
\* holds the delayed yield; with more than six, the first delayed neutrons are
\* left with the default yield
YieldsOfLastSix ==
    (AssembledWithDelayed /\ ~arg.has5455) =>
        /\ (arg.groups < 6 /\ (arg.has456 \/ arg.has452))
              => YieldOf(out.products[1]) = OwnYield(arg.LNU455, C455(arg), Nu(455))
        /\ arg.groups > 6
              => \A i \in 1..Len(out.products) :
                    i <= Len(out.products) - 6 /\ out.products[i].emission_mode = "delayed"
                       => YieldOf(out.products[i]) = Polynomial(<<Float(1, 0)>>)

\* the products of data with a tabulated prompt yield, one delayed group and
\* a polynomial delayed yield were assembled: the prompt neutron holds the
\* delayed yield
FissionOfOneGroup ==
    /\ AssembledWithDelayed
    /\ arg.has456 /\ arg.LNU456 = 2 /\ ~arg.has452 /\ ~arg.has5455
    /\ arg.LNU455 = 1 /\ arg.NC = 1 /\ arg.groups = 1
    /\ Len(out.products) = 2
    /\ YieldOf(out.products[1]) = Polynomial(<<Float(4, 0)>>)
    /\ YieldOf(out.products[2]) = Polynomial(<<Float(4, 0)>>)

\* the products of data with six groups, each with its spectrum, were
\* assembled
FissionOfSixGroups ==
    /\ AssembledWithDelayed
    /\ arg.has456 /\ arg.has452 /\ arg.has5455 /\ arg.groups = 6 /\ arg.NK = 6
    /\ Len(out.products) = 7
    /\ PromptAndTotalKept

=============================================================================
